---- MODULE Spec2Model ----
(***************************************************************************)
(* A model of the cores of vfr-function-routes-app:                        *)
(*   - the tile cache chain of TileRenderer (local file, remote store,     *)
(*     render) together with the background pregeneration walk;            *)
(*   - the coordinate-space conversion VFRPoint.project_point and the      *)
(*     fits of a route and its legs that it uses;                          *)
(*   - the tile geometry of TileRenderer (sizes, tile lists, clips);       *)
(*   - the tile endpoint and the names of the cache entries;               *)
(*   - the states of a route (set_state) and its track list;               *)
(*   - the session store and the sockets of the api.                       *)
(***************************************************************************)
EXTENDS Integers, Sequences, FiniteSets, TLC

(***************************************************************************)
(* Bounds of the model.                                                    *)
(***************************************************************************)
\* number of tile columns of the modelled grid (tile_count.x)
TileCountX == 2

\* how many calls may be abandoned in one behaviour
MaxAbandons == 1

(***************************************************************************)
(* The state: a session that edits a route and converts points, and the    *)
(* tile cache chain.                                                       *)
(***************************************************************************)
VARIABLES
    rte,      \* the VFRFunctionRoute (its map, extent and four matrices)
    rte_legs, \* rte.legs: leg name -> the VFRLeg
    held,     \* the point domain code holds at the moment
    last,     \* the latest project_point call: receiver, target, outcome
    before,   \* the project_point call before the latest
    fit       \* the latest VFRLeg.calc_transformations: inputs and outcome

projvars == <<rte, rte_legs, held, last, before, fit>>

VARIABLES
    has_remote,    \* TileRenderer._remote_cache is not None
    local,         \* datafolder: tile -> "none" | "partial" | "full"
    remote,        \* the bucket: tile -> "none" | "partial" | "full"
    known_files,   \* S3Cache.known_files of each OS process
    known_inited,  \* S3Cache._known_files_inited of each OS process
    pc,            \* position of each caller
    cur,           \* the tile a caller is working on
    obs,           \* what the running call has seen and done so far
    result,        \* what a finished get_tile handed to its caller
    renders,       \* render-count hook: tile -> number of get_pixmap calls
    returned,      \* tile -> set of rasters get_tile has returned for it
    pg_idx,        \* position of pregenerate_tiles in its walk
    abandons       \* number of calls abandoned so far

tilevars == <<has_remote, local, remote, known_files, known_inited,
              pc, cur, obs, result, renders, returned, pg_idx, abandons>>

VARIABLES
    tr,        \* the sizes of the TileRenderer
    area_call, \* the latest get_tile_list_for_area: its area and its result
    clips      \* tile -> the rectangle render_tile has rasterised for it

geomvars == <<tr, area_call, clips>>

VARIABLES
    addr,        \* the latest tile operation and the cache entry it works on
    addr_before  \* the tile operation before the latest

keyvars == <<addr, addr_before>>

VARIABLES
    sroute,          \* the route of a session that steps through the states
    set_state_call   \* the latest call of set_state, when nothing came after

stepvars == <<sroute, set_state_call>>

VARIABLES
    vfrroutes,   \* the session store: session id -> (expiry, route)
    now,         \* time.time()
    rooms,       \* the session a socket has joined, None without one
    event        \* the latest event and what it did

sessvars == <<vfrroutes, now, rooms, event>>

\* the state besides the tile caches, the route and the tile geometry
morevars == <<keyvars, stepvars, sessvars>>

vars == <<has_remote, local, remote, known_files, known_inited,
          pc, cur, obs, result, renders, returned, pg_idx, abandons,
          rte, rte_legs, held, last, before, fit, tr, area_call, clips,
          addr, addr_before, sroute, set_state_call,
          vfrroutes, now, rooms, event>>

(***************************************************************************)
(* TILE CACHE CHAIN                                                        *)
(***************************************************************************)

\* TileRenderer.tile_count: the modelled grid is a single row of tiles
tile_count == [x |-> TileCountX, y |-> 1]

Tiles == (0 .. tile_count.x - 1) \X (0 .. tile_count.y - 1)

NoTile == <<-1, -1>>

\* the interactive callers of get_tile, and the pregeneration process
Requests == {"r1", "r2"}

Pregen == "pg"

Procs == Requests \cup {Pregen}

\* the OS process a caller runs in; each holds its own S3Cache object
Insts == {"web", "pg"}

InstOf(p) == IF p = Pregen THEN "pg" ELSE "web"

\* the walk order of pregenerate_tiles over one renderer: xi outer, yi inner
RECURSIVE TilesInOrder(_, _)
TilesInOrder(xi, yi) ==
    IF xi >= tile_count.x THEN <<>>
    ELSE IF yi >= tile_count.y THEN TilesInOrder(xi + 1, 0)
    ELSE <<(<<xi, yi>>)>> \o TilesInOrder(xi, yi + 1)

PgOrder == TilesInOrder(0, 0)

\* the PNG bytes render_tile produces for a tile: pixmap.tobytes("png")
RenderedPng(t) == [tile |-> t, mode |-> "RGB"]

\* what PIL.Image.open(...) followed by the RGBA conversion hands back
ToRGBA(img) == IF img.mode = "RGBA" THEN img ELSE [img EXCEPT !.mode = "RGBA"]

NoObs == [saw_local |-> "unasked", saw_remote |-> "unasked",
          rendered |-> FALSE, downloaded |-> FALSE, uploaded |-> FALSE]

NoResult == [status |-> "none"]

\* a get_tile that never finds the local file
LocalHitNever(t) == FALSE

\* os.path.isfile(tilecache_fname): open(..., "wb") creates the file before
\* a byte is written, so a partially written file already counts
LocalHit(t) == local[t] # "none"

\* S3Cache.known_files_init: lists the bucket once per S3Cache object.  A
\* listing that fails leaves the object uninitialised and raises; the keys
\* it may have added before failing are only read after a later listing
\* succeeded, and that one adds them again, so they are left out.
InitRaises(i, ok) == ~known_inited[i] /\ ~ok

KnownAfterInit(i) ==
    IF known_inited[i] THEN known_files[i]
    ELSE known_files[i] \cup {t \in Tiles : remote[t] # "none"}

\* a file_exists that never finds the key
FileExistsNever(i, t) == FALSE

\* S3Cache.file_exists after a listing that did not raise
FileExists(i, t) == t \in KnownAfterInit(i)

\* the caller's position and tile once pregenerate_tiles is through with
\* the tile at pg_idx (the next yi/xi of the loop, or the end of the walk)
PgNextPc == IF pg_idx + 1 > Len(PgOrder) THEN "pg_done" ELSE "cc_local"

PgNextTile == IF pg_idx + 1 > Len(PgOrder) THEN NoTile ELSE PgOrder[pg_idx + 1]

\* where a caller continues when render_tile returns normally
AfterRenderPc(p) == IF p = Pregen THEN PgNextPc ELSE "gt_read"

AfterRenderTile(p) == IF p = Pregen THEN PgNextTile ELSE cur[p]

AfterRenderIdx(p) == IF p = Pregen THEN pg_idx + 1 ELSE pg_idx

\* an exception leaves get_tile: the request fails with it
Raise(p, why) ==
    /\ pc' = [pc EXCEPT ![p] = "done"]
    /\ result' = [result EXCEPT ![p] = [status |-> why]]
    /\ UNCHANGED <<cur, pg_idx>>

\* a pregeneration that gives up at the first exception
PgCaughtStops ==
    /\ pc' = [pc EXCEPT ![Pregen] = "pg_done"]
    /\ cur' = [cur EXCEPT ![Pregen] = NoTile]
    /\ pg_idx' = pg_idx
    /\ UNCHANGED result

\* an exception inside the try of pregenerate_tiles: logged, next tile
PgCaught ==
    /\ pc' = [pc EXCEPT ![Pregen] = PgNextPc]
    /\ cur' = [cur EXCEPT ![Pregen] = PgNextTile]
    /\ pg_idx' = pg_idx + 1
    /\ UNCHANGED result

RaiseOrCatch(p, why) == IF p = Pregen THEN PgCaught ELSE Raise(p, why)

\* the record of what a get_tile call did (the pregeneration keeps none)
Seen(p, what) == IF p = Pregen THEN obs ELSE [obs EXCEPT ![p][what] = TRUE]

(* get_tile *)

\* a caller invokes get_tile(x, y): "check local cache", the isfile test
\* and the branch on self._remote_cache
GetTile(p, t) ==
    /\ UNCHANGED <<projvars, geomvars, morevars>>
    /\ p \in Requests
    /\ pc[p] = "idle"
    /\ cur' = [cur EXCEPT ![p] = t]
    /\ IF LocalHit(t)
       THEN /\ pc' = [pc EXCEPT ![p] = "gt_read"]
            /\ obs' = [obs EXCEPT ![p] = [NoObs EXCEPT !.saw_local = "hit"]]
       ELSE /\ pc' = [pc EXCEPT ![p] =
                        IF has_remote THEN "gt_exists" ELSE "rt_render"]
            /\ obs' = [obs EXCEPT ![p] = [NoObs EXCEPT !.saw_local = "miss"]]
    /\ UNCHANGED <<has_remote, local, remote, known_files, known_inited,
                   result, renders, returned, pg_idx, abandons>>

\* "check remote cache": self._remote_cache.file_exists(tilecache_remote)
GtFileExists(p, ok) ==
    /\ UNCHANGED <<projvars, geomvars, morevars>>
    /\ pc[p] = "gt_exists"
    /\ IF InitRaises(InstOf(p), ok)
       THEN /\ Raise(p, "remote_error")
            /\ obs' = [obs EXCEPT ![p].saw_remote = "failed"]
            /\ UNCHANGED <<known_files, known_inited>>
       ELSE /\ known_files' = [known_files EXCEPT
                                 ![InstOf(p)] = KnownAfterInit(InstOf(p))]
            /\ known_inited' = [known_inited EXCEPT ![InstOf(p)] = TRUE]
            /\ IF FileExists(InstOf(p), cur[p])
               THEN /\ pc' = [pc EXCEPT ![p] = "gt_download"]
                    /\ obs' = [obs EXCEPT ![p].saw_remote = "hit"]
               ELSE /\ pc' = [pc EXCEPT ![p] = "rt_render"]
                    /\ obs' = [obs EXCEPT ![p].saw_remote = "miss"]
            /\ UNCHANGED <<cur, result, pg_idx>>
    /\ UNCHANGED <<has_remote, local, remote, renders, returned, abandons>>

\* self._remote_cache.download_file(tilecache_remote, tilecache_fname):
\* the S3 client downloads into a temporary file and renames it over the
\* target when the transfer is complete, so the local file changes at once
GtDownload(p, ok) ==
    /\ UNCHANGED <<projvars, geomvars, morevars>>
    /\ pc[p] = "gt_download"
    /\ IF ok
       THEN /\ local' = [local EXCEPT ![cur[p]] = remote[cur[p]]]
            /\ pc' = [pc EXCEPT ![p] = "gt_read"]
            /\ obs' = Seen(p, "downloaded")
            /\ UNCHANGED <<cur, result, pg_idx>>
       ELSE /\ Raise(p, "remote_error")
            /\ UNCHANGED <<local, obs>>
    /\ UNCHANGED <<has_remote, remote, known_files, known_inited,
                   renders, returned, abandons>>

\* PIL.Image.open(tilecache_fname) and the RGBA conversion, then return
GtRead(p) ==
    /\ UNCHANGED <<projvars, geomvars, morevars>>
    /\ pc[p] = "gt_read"
    /\ pc' = [pc EXCEPT ![p] = "done"]
    /\ IF local[cur[p]] = "full"
       THEN /\ result' = [result EXCEPT ![p] =
                   [status |-> "ok", raster |-> ToRGBA(RenderedPng(cur[p]))]]
            /\ returned' = [returned EXCEPT ![cur[p]] =
                   @ \cup {ToRGBA(RenderedPng(cur[p]))}]
       ELSE /\ result' = [result EXCEPT ![p] = [status |-> "torn"]]
            /\ UNCHANGED returned
    /\ UNCHANGED <<has_remote, local, remote, known_files, known_inited,
                   cur, obs, renders, pg_idx, abandons>>

\* the caller has taken the result; it may call again
Return(p) ==
    /\ UNCHANGED <<projvars, geomvars, morevars>>
    /\ pc[p] = "done"
    /\ pc' = [pc EXCEPT ![p] = "idle"]
    /\ cur' = [cur EXCEPT ![p] = NoTile]
    /\ obs' = [obs EXCEPT ![p] = NoObs]
    /\ result' = [result EXCEPT ![p] = NoResult]
    /\ UNCHANGED <<has_remote, local, remote, known_files, known_inited,
                   renders, returned, pg_idx, abandons>>

(* render_tile, called by get_tile and by pregenerate_tiles *)

\* the state of the cache file once open(tilecache_fname, "wb") returned:
\* the file exists and is empty, whatever it held before
OpenedForWrite(content) == "partial"

\* self._page.get_pixmap(clip=clip, dpi=self.dpi), pixmap.tobytes("png")
\* and open(tilecache_fname, "wb")
RtRender(p) ==
    /\ UNCHANGED <<projvars, geomvars, morevars>>
    /\ pc[p] = "rt_render"
    /\ pc' = [pc EXCEPT ![p] = "rt_write"]
    /\ obs' = Seen(p, "rendered")
    /\ renders' = [renders EXCEPT ![cur[p]] = @ + 1]
    /\ local' = [local EXCEPT ![cur[p]] = OpenedForWrite(@)]
    /\ UNCHANGED <<has_remote, remote, known_files, known_inited,
                   cur, result, returned, pg_idx, abandons>>

\* f.write(buf) and the close at the end of the with block; without a
\* remote cache render_tile returns here
RtWrite(p) ==
    /\ UNCHANGED <<projvars, geomvars, morevars>>
    /\ pc[p] = "rt_write"
    /\ local' = [local EXCEPT ![cur[p]] = "full"]
    /\ IF has_remote
       THEN /\ pc' = [pc EXCEPT ![p] = "rt_upload"]
            /\ UNCHANGED <<cur, pg_idx>>
       ELSE /\ pc' = [pc EXCEPT ![p] = AfterRenderPc(p)]
            /\ cur' = [cur EXCEPT ![p] = AfterRenderTile(p)]
            /\ pg_idx' = AfterRenderIdx(p)
    /\ UNCHANGED <<has_remote, remote, known_files, known_inited,
                   obs, result, renders, returned, abandons>>

\* self._remote_cache.upload_file(tilecache_fname, tilecache_remote):
\* known_files_init, s3.upload_file of the local file as it is now, and
\* known_files.add; nothing catches what the first two raise
RtUpload(p, init_ok, ok) ==
    /\ UNCHANGED <<projvars, geomvars, morevars>>
    /\ pc[p] = "rt_upload"
    /\ IF InitRaises(InstOf(p), init_ok)
       THEN /\ RaiseOrCatch(p, "remote_error")
            /\ UNCHANGED <<remote, known_files, known_inited, obs>>
       ELSE IF ~ok
       THEN /\ RaiseOrCatch(p, "remote_error")
            /\ known_files' = [known_files EXCEPT
                                 ![InstOf(p)] = KnownAfterInit(InstOf(p))]
            /\ known_inited' = [known_inited EXCEPT ![InstOf(p)] = TRUE]
            /\ UNCHANGED <<remote, obs>>
       ELSE /\ remote' = [remote EXCEPT ![cur[p]] = local[cur[p]]]
            /\ known_files' = [known_files EXCEPT
                    ![InstOf(p)] = KnownAfterInit(InstOf(p)) \cup {cur[p]}]
            /\ known_inited' = [known_inited EXCEPT ![InstOf(p)] = TRUE]
            /\ obs' = Seen(p, "uploaded")
            /\ pc' = [pc EXCEPT ![p] = AfterRenderPc(p)]
            /\ cur' = [cur EXCEPT ![p] = AfterRenderTile(p)]
            /\ pg_idx' = AfterRenderIdx(p)
            /\ UNCHANGED result
    /\ UNCHANGED <<has_remote, local, renders, returned, abandons>>

(* pregenerate_tiles and check_cached *)

\* the pregeneration process enters its loop over the tiles
PgStart ==
    /\ UNCHANGED <<projvars, geomvars, morevars>>
    /\ pc[Pregen] = "idle"
    /\ pg_idx = 0
    /\ pg_idx' = 1
    /\ IF Len(PgOrder) = 0
       THEN /\ pc' = [pc EXCEPT ![Pregen] = "pg_done"]
            /\ UNCHANGED cur
       ELSE /\ pc' = [pc EXCEPT ![Pregen] = "cc_local"]
            /\ cur' = [cur EXCEPT ![Pregen] = PgOrder[1]]
    /\ UNCHANGED <<has_remote, local, remote, known_files, known_inited,
                   obs, result, renders, returned, abandons>>

\* check_cached, "check local cache"
CcCheckLocal(p) ==
    /\ UNCHANGED <<projvars, geomvars, morevars>>
    /\ pc[p] = "cc_local"
    /\ IF LocalHit(cur[p])
       THEN /\ pc' = [pc EXCEPT ![p] = PgNextPc]
            /\ cur' = [cur EXCEPT ![p] = PgNextTile]
            /\ pg_idx' = pg_idx + 1
       ELSE /\ pc' = [pc EXCEPT ![p] =
                        IF has_remote THEN "cc_exists" ELSE "rt_render"]
            /\ UNCHANGED <<cur, pg_idx>>
    /\ UNCHANGED <<has_remote, local, remote, known_files, known_inited,
                   obs, result, renders, returned, abandons>>

\* check_cached, "check remote cache"
CcFileExists(p, ok) ==
    /\ UNCHANGED <<projvars, geomvars, morevars>>
    /\ pc[p] = "cc_exists"
    /\ IF InitRaises(InstOf(p), ok)
       THEN /\ PgCaught
            /\ UNCHANGED <<known_files, known_inited>>
       ELSE /\ known_files' = [known_files EXCEPT
                                 ![InstOf(p)] = KnownAfterInit(InstOf(p))]
            /\ known_inited' = [known_inited EXCEPT ![InstOf(p)] = TRUE]
            /\ IF FileExists(InstOf(p), cur[p])
               THEN /\ pc' = [pc EXCEPT ![p] = PgNextPc]
                    /\ cur' = [cur EXCEPT ![p] = PgNextTile]
                    /\ pg_idx' = pg_idx + 1
               ELSE /\ pc' = [pc EXCEPT ![p] = "rt_render"]
                    /\ UNCHANGED <<cur, pg_idx>>
            /\ UNCHANGED result
    /\ UNCHANGED <<has_remote, local, remote, obs, renders, returned, abandons>>

(* the environment *)

InCall(p) == pc[p] \notin {"idle", "done", "pg_done"}

\* a call is abandoned where it stands: the caller stops awaiting it, the
\* daemon pregeneration process ends with its parent, a worker is killed
Abandon(p) ==
    /\ UNCHANGED <<projvars, geomvars, morevars>>
    /\ InCall(p)
    /\ abandons < MaxAbandons
    /\ abandons' = abandons + 1
    /\ pc' = [pc EXCEPT ![p] = IF p = Pregen THEN "pg_done" ELSE "idle"]
    /\ cur' = [cur EXCEPT ![p] = NoTile]
    /\ obs' = [obs EXCEPT ![p] = NoObs]
    /\ UNCHANGED <<has_remote, local, remote, known_files, known_inited,
                   result, renders, returned, pg_idx>>

(* specifications of the tile cache chain *)

\* an empty data folder, a bucket holding the complete tiles earlier runs
\* or other hosts uploaded, fresh S3Cache objects, nobody calling
TileInit ==
    /\ has_remote \in BOOLEAN
    /\ local = [t \in Tiles |-> "none"]
    /\ remote \in [Tiles -> {"none", "full"}]
    /\ has_remote = FALSE => remote = [t \in Tiles |-> "none"]
    /\ known_files = [i \in Insts |-> {}]
    /\ known_inited = [i \in Insts |-> FALSE]
    /\ pc = [p \in Procs |-> "idle"]
    /\ cur = [p \in Procs |-> NoTile]
    /\ obs = [p \in Procs |-> NoObs]
    /\ result = [p \in Procs |-> NoResult]
    /\ renders = [t \in Tiles |-> 0]
    /\ returned = [t \in Tiles |-> {}]
    /\ pg_idx = 0
    /\ abandons = 0

\* one step of a get_tile call
GetTileStep(p) ==
    \/ \E t \in Tiles : GetTile(p, t)
    \/ \E ok \in BOOLEAN : GtFileExists(p, ok)
    \/ \E ok \in BOOLEAN : GtDownload(p, ok)
    \/ RtRender(p)
    \/ RtWrite(p)
    \/ \E init_ok, ok \in BOOLEAN : RtUpload(p, init_ok, ok)
    \/ GtRead(p)
    \/ Return(p)

\* one step of the pregeneration process
PregenStep ==
    \/ PgStart
    \/ CcCheckLocal(Pregen)
    \/ \E ok \in BOOLEAN : CcFileExists(Pregen, ok)
    \/ RtRender(Pregen)
    \/ RtWrite(Pregen)
    \/ \E init_ok, ok \in BOOLEAN : RtUpload(Pregen, init_ok, ok)

TileNext ==
    \/ \E p \in Requests : GetTileStep(p)
    \/ PregenStep
    \/ \E p \in Procs : Abandon(p)

(***************************************************************************)
(* COORDINATE TRANSFORM PIPELINE                                           *)
(*                                                                         *)
(* Coordinates and matrix entries are exact rationals <<n, d>>, d > 0, in  *)
(* lowest terms; they stand for the floats of the program, so that an      *)
(* equality of the model is an equality within tolerance of the program.   *)
(***************************************************************************)

Abs(n) == IF n < 0 THEN -n ELSE n

RECURSIVE Gcd(_, _)
Gcd(a, b) == IF b = 0 THEN a ELSE Gcd(b, a % b)

\* the rational n/d in lowest terms with a positive denominator
Reduced(n, d, g) ==
    IF d < 0 THEN <<-(n \div g), -(d \div g)>> ELSE <<n \div g, d \div g>>

Rat(n, d) == Reduced(n, d, Gcd(Abs(n), Abs(d)))

RInt(n) == <<n, 1>>

RAdd(a, b) == Rat(a[1] * b[2] + b[1] * a[2], a[2] * b[2])

RSub(a, b) == Rat(a[1] * b[2] - b[1] * a[2], a[2] * b[2])

RMul(a, b) == Rat(a[1] * b[1], a[2] * b[2])

\* only used with b # 0
RDiv(a, b) == Rat(a[1] * b[2], a[2] * b[1])

RNeg(a) == <<-a[1], a[2]>>

RZero == RInt(0)

ROne == RInt(1)

RLess(a, b) == a[1] * b[2] < b[1] * a[2]

RMin(a, b) == IF RLess(b, a) THEN b ELSE a

RMax(a, b) == IF RLess(a, b) THEN b ELSE a

\* a 3x3 matrix is a triple of rows, each a triple of rationals
Det3(m) ==
    RAdd(RSub(RMul(m[1][1], RSub(RMul(m[2][2], m[3][3]), RMul(m[2][3], m[3][2]))),
              RMul(m[1][2], RSub(RMul(m[2][1], m[3][3]), RMul(m[2][3], m[3][1])))),
         RMul(m[1][3], RSub(RMul(m[2][1], m[3][2]), RMul(m[2][2], m[3][1]))))

\* the cofactor of entry (i, j)
Cof3(m, i, j) ==
    LET r == IF i = 1 THEN <<2, 3>> ELSE IF i = 2 THEN <<1, 3>> ELSE <<1, 2>>
        c == IF j = 1 THEN <<2, 3>> ELSE IF j = 2 THEN <<1, 3>> ELSE <<1, 2>>
        minor == RSub(RMul(m[r[1]][c[1]], m[r[2]][c[2]]),
                      RMul(m[r[1]][c[2]], m[r[2]][c[1]]))
    IN  IF (i + j) % 2 = 0 THEN minor ELSE RNeg(minor)

Singular(m) == Det3(m) = RZero

\* np.linalg.inv of a matrix that is not singular
Adjugate3Over(m, d) ==
    LET e(i, j) == RDiv(Cof3(m, j, i), d)
    IN  << <<e(1, 1), e(1, 2), e(1, 3)>>,
           <<e(2, 1), e(2, 2), e(2, 3)>>,
           <<e(3, 1), e(3, 2), e(3, 3)>> >>

Inv3(m) == Adjugate3Over(m, Det3(m))

Transpose3(m) ==
    LET e(i, j) == m[j][i]
    IN  << <<e(1, 1), e(1, 2), e(1, 3)>>,
           <<e(2, 1), e(2, 2), e(2, 3)>>,
           <<e(3, 1), e(3, 2), e(3, 3)>> >>

MatMul3(a, b) ==
    LET e(i, j) == RAdd(RAdd(RMul(a[i][1], b[1][j]), RMul(a[i][2], b[2][j])),
                        RMul(a[i][3], b[3][j]))
    IN  << <<e(1, 1), e(1, 2), e(1, 3)>>,
           <<e(2, 1), e(2, 2), e(2, 3)>>,
           <<e(3, 1), e(3, 2), e(3, 3)>> >>

\* the row [x, y, 1] of a point <<x, y>>
Row(pt) == <<pt[1], pt[2], ROne>>

\* sum over the first n correspondences (n at most 4: a fit of the program
\* has three or four) of (source row)^T (destination row)
SumOuter(src, dst, n) ==
    LET term(k, i, j) == IF k <= n THEN RMul(Row(src[k])[i], Row(dst[k])[j])
                         ELSE RZero
        e(i, j) == RAdd(RAdd(term(1, i, j), term(2, i, j)),
                        RAdd(term(3, i, j), term(4, i, j)))
    IN  << <<e(1, 1), e(1, 2), e(1, 3)>>,
           <<e(2, 1), e(2, 2), e(2, 3)>>,
           <<e(3, 1), e(3, 2), e(3, 3)>> >>

\* the correspondences determine the fit: the source points are not all on
\* one line (the system matrix has full column rank)
FullRank(source_points) ==
    ~Singular(SumOuter(source_points, source_points, Len(source_points)))

\* _calculate_2d_transformation_matrix for source points of full rank: the
\* least-squares solution X of A X = B by the normal equations
\* (A^T A) X = A^T B, transposed
Calculate2dTransformationMatrix(source_points, destination_points) ==
    LET n == Len(source_points)
        ata == SumOuter(source_points, source_points, n)
        atb == SumOuter(source_points, destination_points, n)
    IN  Transpose3(MatMul3(Inv3(ata), atb))

\* _apply_transformation_matrix: the first two entries of M (x, y, 1)^T
ApplyTransformationMatrix(pt, m) ==
    <<RAdd(RAdd(RMul(m[1][1], pt[1]), RMul(m[1][2], pt[2])), m[1][3]),
      RAdd(RAdd(RMul(m[2][1], pt[1]), RMul(m[2][2], pt[2])), m[2][3])>>

\* _rotate_point for +90 and -90 degrees (cos = 0, sin = +1 or -1)
RotatePoint(pt, center, angle_degrees) ==
    LET sin == IF angle_degrees = 90 THEN ROne ELSE RNeg(ROne)
        dx == RSub(pt[1], center[1])
        dy == RSub(pt[2], center[2])
    IN  <<RAdd(RNeg(RMul(dy, sin)), center[1]),
          RAdd(RMul(dx, sin), center[2])>>

\* VFRCoordSystem: the value auto() gives each member
CoordSystems == {"FUNCTION", "MAPCROP_XY", "MAP_XY", "FULL_WORLD_XY", "LONLAT"}

\* an enumeration that numbers MAP_XY and FULL_WORLD_XY the other way round
CoordValueSwapped(sys) ==
    CASE sys = "FUNCTION" -> 1
      [] sys = "MAPCROP_XY" -> 2
      [] sys = "MAP_XY" -> 4
      [] sys = "FULL_WORLD_XY" -> 3
      [] sys = "LONLAT" -> 5

CoordValue(sys) ==
    CASE sys = "FUNCTION" -> 1
      [] sys = "MAPCROP_XY" -> 2
      [] sys = "MAP_XY" -> 3
      [] sys = "FULL_WORLD_XY" -> 4
      [] sys = "LONLAT" -> 5

\* a matrix that has not been computed yet (None)
NoMatrix == <<>>

\* the values of a VFRPoint's leg attribute: None, a VFRLeg, or a VFRPoint
NoLeg == [kind |-> "none"]

LegRef(name) == [kind |-> "leg", name |-> name]

PointRef(p) == [kind |-> "point", x |-> p.x, y |-> p.y,
                coord_system |-> p.coord_system]

\* VFRPoint(x, y, coord_system, route, leg); route is "None" or "route"
VFRPoint(x, y, coord_system, route, leg) ==
    [x |-> x, y |-> y, coord_system |-> coord_system, route |-> route, leg |-> leg]

\* route.proj: the conic projection of the projection library and its
\* inverse, an external dependency; an invertible map stands for it
Proj(x, y, inverse) ==
    IF inverse
    THEN <<RDiv(RSub(x, RInt(1)), RInt(2)), RDiv(RAdd(y, RInt(2)), RInt(3))>>
    ELSE <<RAdd(RMul(RInt(2), x), RInt(1)), RSub(RMul(RInt(3), y), RInt(2))>>

\* what a call that raised hands back: no point
NoPoint == [kind |-> "nopoint"]

\* the leg reference project_point gives the point it returns
ResultLeg(self) == PointRef(self)

\* a leg test that lets every point pass
NotLegNever(self) == FALSE

\* a leg test that no point passes
NotLegAlways(self) == TRUE

\* not self.leg: None is falsy, a VFRLeg or VFRPoint object is truthy
NotLeg(self) == self.leg.kind = "none"

\* one "if cursys == ... and cursys.value <cmp> to_system.value" statement
\* of project_point: st is the running (curx, cury, cursys), with the
\* transforms applied so far and the exception raised, if any.
\*   owner "route": the matrix or projection is an attribute of self.route
\*   owner "leg":   the matrix is an attribute of self.leg
ProjStep(st, self, from_sys, to_sys, taken, name, owner, matrix) ==
    IF st.status # "ok" \/ st.cursys # from_sys \/ ~taken
    THEN st
    ELSE IF owner = "route" /\ self.route = "None"
    THEN [st EXCEPT !.status = "AttributeError"]
    ELSE IF owner = "leg" /\ self.leg.kind # "leg"
    THEN [st EXCEPT !.status = "AttributeError"]
    ELSE IF name \notin {"proj", "proj_inverse"} /\ matrix = NoMatrix
    THEN [st EXCEPT !.status = "TypeError"]
    ELSE LET xy == CASE name = "proj" -> Proj(st.curx, st.cury, FALSE)
                     [] name = "proj_inverse" -> Proj(st.curx, st.cury, TRUE)
                     [] OTHER -> ApplyTransformationMatrix(
                                     <<st.curx, st.cury>>, matrix)
         IN  [st EXCEPT !.curx = xy[1], !.cury = xy[2], !.cursys = to_sys,
                         !.applied = Append(@, name)]

\* the matrices of self.leg (none when self.leg is no VFRLeg)
LegMatrices(self, lgs) ==
    IF self.leg.kind = "leg" THEN lgs[self.leg.name]
    ELSE [matrix_func2cropmap |-> NoMatrix, matrix_cropmap2func |-> NoMatrix]

\* the return statement of project_point, reached with the running state
\* fin unless a step raised
ProjReturn(self, fin) ==
    IF fin.status # "ok"
    THEN [status |-> fin.status, point |-> NoPoint, applied |-> fin.applied]
    ELSE [status |-> "ok",
          point |-> VFRPoint(fin.curx, fin.cury, fin.cursys,
                             self.route, ResultLeg(self)),
          applied |-> fin.applied]

\* VFRPoint.project_point(to_system) with the matrices rt stored on the
\* route and lgs stored on the legs.  The result is
\*   [status, point, applied]: status "ok" and the returned point, or the
\*   exception raised; applied lists the transforms used, in order.
ProjectPoint(self, to_system, rt, lgs) ==
    LET down == CoordValue(self.coord_system) > CoordValue(to_system)
        up(sys) == CoordValue(sys) < CoordValue(to_system)
        dn(sys) == CoordValue(sys) > CoordValue(to_system)
        lm == LegMatrices(self, lgs)
        c0 == [curx |-> self.x, cury |-> self.y, cursys |-> self.coord_system,
               status |-> "ok", applied |-> <<>>]
        d1 == ProjStep(c0, self, "LONLAT", "FULL_WORLD_XY", dn("LONLAT"),
                       "proj", "route", NoMatrix)
        d2 == ProjStep(d1, self, "FULL_WORLD_XY", "MAP_XY", dn("FULL_WORLD_XY"),
                       "matrix_fullmap2map", "route", rt.matrix_fullmap2map)
        d3 == ProjStep(d2, self, "MAP_XY", "MAPCROP_XY", dn("MAP_XY"),
                       "matrix_map2cropmap", "route", rt.matrix_map2cropmap)
        d4 == ProjStep(d3, self, "MAPCROP_XY", "FUNCTION", dn("MAPCROP_XY"),
                       "matrix_cropmap2func", "leg", lm.matrix_cropmap2func)
        u1 == ProjStep(c0, self, "FUNCTION", "MAPCROP_XY", up("FUNCTION"),
                       "matrix_func2cropmap", "leg", lm.matrix_func2cropmap)
        u2 == ProjStep(u1, self, "MAPCROP_XY", "MAP_XY", up("MAPCROP_XY"),
                       "matrix_cropmap2map", "route", rt.matrix_cropmap2map)
        u3 == ProjStep(u2, self, "MAP_XY", "FULL_WORLD_XY", up("MAP_XY"),
                       "matrix_map2fullmap", "route", rt.matrix_map2fullmap)
        u4 == ProjStep(u3, self, "FULL_WORLD_XY", "LONLAT", up("FULL_WORLD_XY"),
                       "proj_inverse", "route", NoMatrix)
    IN  IF NotLeg(self) /\ "FUNCTION" \in {self.coord_system, to_system}
        THEN [status |-> "ValueError", point |-> NoPoint, applied |-> <<>>]
        ELSE IF self.coord_system = to_system
        THEN [status |-> "ok", point |-> self, applied |-> <<>>]
        ELSE ProjReturn(self, IF down THEN d4 ELSE u4)

\* VFRFunctionRoute.LOW_DPI and HIGH_DPI (the defaults of the environment)
LOW_DPI == 72

HIGH_DPI == 600

\* the map definitions of the model: the reference points (lon, lat) ->
\* (x, y) of MapDefinition.points and the default area MapDefinition.area
MapDefs ==
    {[points |-> << <<(<<RInt(0), RInt(0)>>), (<<RInt(0), RInt(12)>>)>>,
                    <<(<<RInt(4), RInt(0)>>), (<<RInt(8), RInt(12)>>)>>,
                    <<(<<RInt(0), RInt(4)>>), (<<RInt(0), RInt(0)>>)>> >>,
      area |-> [top_left |-> <<RInt(0), RInt(4)>>,
                bottom_right |-> <<RInt(4), RInt(0)>>]],
     [points |-> << <<(<<RInt(1), RInt(1)>>), (<<RInt(3), RInt(9)>>)>>,
                    <<(<<RInt(3), RInt(1)>>), (<<RInt(9), RInt(9)>>)>>,
                    <<(<<RInt(1), RInt(3)>>), (<<RInt(4), RInt(3)>>)>> >>,
      area |-> [top_left |-> <<RInt(1), RInt(3)>>,
                bottom_right |-> <<RInt(3), RInt(1)>>]]}

\* an extent is [minx, miny, maxx, maxy] (ExtentLonLat, ExtentXY)
PointExtent(q) == [minx |-> q[1], miny |-> q[2], maxx |-> q[1], maxy |-> q[2]]

\* the extent e widened to hold the point q
WidenExtent(e, q) ==
    [minx |-> RMin(e.minx, q[1]), miny |-> RMin(e.miny, q[2]),
     maxx |-> RMax(e.maxx, q[1]), maxy |-> RMax(e.maxy, q[2])]

\* the bounding box of the first k points of pts (min and max per axis)
RECURSIVE ExtentOf(_, _)
ExtentOf(pts, k) ==
    IF k = 1 THEN PointExtent(pts[1])
    ELSE WidenExtent(ExtentOf(pts, k - 1), pts[k])

\* calc_extents in the states INITIATED, AREAOFINTEREST and WAYPOINTS: the
\* extent is the area of interest, corners ordered
AreaExtent(area_of_interest) ==
    ExtentOf(<<area_of_interest.top_left, area_of_interest.bottom_right>>, 2)

\* get_mapxyextent: the four corners of the lon-lat extent, projected to
\* MAP_XY, and their bounding box
GetMapXYExtent(extent, matrix_fullmap2map) ==
    LET ll == <<(<<extent.minx, extent.miny>>), (<<extent.minx, extent.maxy>>),
                (<<extent.maxx, extent.miny>>), (<<extent.maxx, extent.maxy>>)>>
        p(k) == ApplyTransformationMatrix(
                    Proj(ll[k][1], ll[k][2], FALSE), matrix_fullmap2map)
    IN  ExtentOf(<<p(1), p(2), p(3), p(4)>>, 4)

\* the scale (...)*self.HIGH_DPI/self.LOW_DPI of the cropped map
ScaleUp(len) == RDiv(RMul(len, RInt(HIGH_DPI)), RInt(LOW_DPI))

\* calc_transformations, "full world map -> map": the fit of the projected
\* reference points of the map to their pixel positions at LOW_DPI
FitFullMap2Map(map) ==
    LET p(k) == Proj(map.points[k][1][1], map.points[k][1][2], FALSE)
        pp(k) == <<RMul(RDiv(map.points[k][2][1], RInt(72)), RInt(LOW_DPI)),
                   RMul(RDiv(map.points[k][2][2], RInt(72)), RInt(LOW_DPI))>>
    IN  Calculate2dTransformationMatrix(
            <<p(1), p(2), p(3)>>, <<pp(1), pp(2), pp(3)>>)

\* calc_transformations, "map -> cropped map": the corners of the MAP_XY
\* extent e fitted to a zero-origin rectangle scaled by HIGH_DPI/LOW_DPI
FitMap2CropMap(e) ==
    LET w == ScaleUp(RSub(e.maxx, e.minx))
        h == ScaleUp(RSub(e.maxy, e.miny))
        cpp == <<(<<RZero, RZero>>), (<<RZero, h>>), (<<w, RZero>>), (<<w, h>>)>>
        cp == <<(<<e.minx, e.miny>>), (<<e.minx, e.maxy>>),
                (<<e.maxx, e.miny>>), (<<e.maxx, e.maxy>>)>>
    IN  Calculate2dTransformationMatrix(cp, cpp)

\* the four matrices calc_transformations stores: each fit and its inverse
RouteMatrices(fullmap2map, map2cropmap) ==
    [matrix_fullmap2map |-> fullmap2map,
     matrix_map2fullmap |-> Inv3(fullmap2map),
     matrix_map2cropmap |-> map2cropmap,
     matrix_cropmap2map |-> Inv3(map2cropmap)]

\* calc_transformations once matrix_fullmap2map is known
RouteCalcWith(extent, fullmap2map) ==
    RouteMatrices(fullmap2map,
                  FitMap2CropMap(GetMapXYExtent(extent, fullmap2map)))

\* VFRFunctionRoute.calc_transformations, the matrices of the route itself
RouteCalcTransformations(map, extent) ==
    RouteCalcWith(extent, FitFullMap2Map(map))

\* the Python function calc_function builds from the leg's LaTeX string
LegFunction(function_name, x) ==
    IF function_name = "x^2" THEN RMul(x, x) ELSE x

\* the least-squares solution of minimal norm when all source points are
\* one and the same point with row r: X = r^T (mean destination row) / |r|^2,
\* transposed
MinNormOver(atb, n, rr) ==
    LET e(i, j) == RDiv(RDiv(atb[j][i], RInt(n)), rr)
    IN  << <<e(1, 1), e(1, 2), e(1, 3)>>,
           <<e(2, 1), e(2, 2), e(2, 3)>>,
           <<e(3, 1), e(3, 2), e(3, 3)>> >>

\* the squared norm |r|^2 of the row r = [x, y, 1] of a point
RowNorm2(pt) == RAdd(RAdd(RMul(pt[1], pt[1]), RMul(pt[2], pt[2])), ROne)

MinNormSamePoint(source_points, destination_points) ==
    MinNormOver(SumOuter(source_points, destination_points, Len(source_points)),
                Len(source_points), RowNorm2(source_points[1]))

\* the constraint points of a leg: the LONLAT point of each (p, x) pair
\* carries the route and, since VFRLeg.__init__, the leg itself
LegPoint(leg_name, lonlat) ==
    VFRPoint(lonlat[1], lonlat[2], "LONLAT", "route", LegRef(leg_name))

\* the try block of VFRLeg.calc_transformations once the fit m is known:
\* np.linalg.inv raises on a singular matrix after the new
\* matrix_func2cropmap has been stored, and the except clause passes
LegStore(old, m) ==
    IF Singular(m)
    THEN [matrix_func2cropmap |-> m,
          matrix_cropmap2func |-> old.matrix_cropmap2func]
    ELSE [matrix_func2cropmap |-> m, matrix_cropmap2func |-> Inv3(m)]

\* the least-squares solution numpy returns for the correspondences
LeastSquares(sp, dp) ==
    IF FullRank(sp) THEN Calculate2dTransformationMatrix(sp, dp)
    ELSE MinNormSamePoint(sp, dp)

\* a third correspondence rotated by -90 degrees in both spaces
LegCorrespondencesSameAngle(sp2, dp2) ==
    [sp |-> Append(sp2, RotatePoint(sp2[1], sp2[2], -90)),
     dp |-> Append(dp2, RotatePoint(dp2[1], dp2[2], -90))]

\* the third correspondence calc_transformations appends to each list when
\* there are fewer than three: _rotate_point(sp[0], sp[1], -90) and
\* _rotate_point(dp[0], dp[1], 90)
LegCorrespondences(sp2, dp2) ==
    [sp |-> Append(sp2, RotatePoint(sp2[1], sp2[2], -90)),
     dp |-> Append(dp2, RotatePoint(dp2[1], dp2[2], 90))]

\* the fit of a leg of two constraint points
LegFit(sp2, dp2) ==
    CHOOSE m \in {LeastSquares(c.sp, c.dp) : c \in {LegCorrespondences(sp2, dp2)}} :
        TRUE

\* the lists sp and dp of calc_transformations before the rotation: the
\* function points (x, f(x)) and the constraint points projected to
\* MAPCROP_XY
LegSp(leg) ==
    LET f(x) == LegFunction(leg.function_name, x)
        s(k) == <<leg.points[k][2], f(leg.points[k][2])>>
    IN  <<s(1), s(2)>>

LegDp(leg_name, leg, rt, lgs) ==
    LET dpp(k) == ProjectPoint(LegPoint(leg_name, leg.points[k][1]),
                               "MAPCROP_XY", rt, lgs).point
        d(k) == <<dpp(k).x, dpp(k).y>>
    IN  <<d(1), d(2)>>

\* the record of one VFRLeg.calc_transformations call: the correspondences
\* c fitted, the matrices stored before (old) and after (new), and whether
\* np.linalg.inv raised inside the try block on the fit m
FitOutcome(leg_name, c, old, m) ==
    [kind |-> "fit", leg |-> leg_name, sp |-> c.sp, dp |-> c.dp,
     failed |-> Singular(m), old |-> old, new |-> LegStore(old, m)]

FitRecord(leg_name, sp2, dp2, old) ==
    CHOOSE rec \in {FitOutcome(leg_name, c, old, m) :
                       c \in {LegCorrespondences(sp2, dp2)},
                       m \in {LegFit(sp2, dp2)}} : TRUE

\* VFRLeg.calc_transformations for a leg of two constraint points, with
\* old the matrices stored before the call: what it fitted and stored
LegCalcRecord(leg_name, leg, rt, lgs, old) ==
    CHOOSE rec \in {FitRecord(leg_name, sp2, dp2, old) :
                       sp2 \in {LegSp(leg)},
                       dp2 \in {LegDp(leg_name, leg, rt, lgs)}} : TRUE

\* the matrices stored on the leg when calc_transformations returns
LegCalcTransformations(leg_name, leg, rt, lgs, old) ==
    LegCalcRecord(leg_name, leg, rt, lgs, old).new

\* VFRLeg.__init__: no matrices yet
NewLegMatrices == [matrix_func2cropmap |-> NoMatrix, matrix_cropmap2func |-> NoMatrix]

\* the legs of the model: function and (lon-lat point, function x) pairs
LegNames == {"leg1"}

LegDefs ==
    {[function_name |-> "x",
      points |-> << <<(<<RInt(1), RInt(1)>>), RInt(0)>>,
                    <<(<<RInt(3), RInt(2)>>), RInt(1)>> >>],
     [function_name |-> "x^2",
      points |-> << <<(<<RInt(1), RInt(3)>>), RInt(0)>>,
                    <<(<<RInt(2), RInt(1)>>), RInt(2)>> >>]}

\* VFRFunctionRoute.__init__: calc_extents and calc_transformations run in
\* the constructor, so a route always holds its four matrices
RouteWith(map, area_of_interest, state, extent, m) ==
    [map |-> map, area_of_interest |-> area_of_interest, state |-> state,
     extent |-> extent,
     matrix_fullmap2map |-> m.matrix_fullmap2map,
     matrix_map2fullmap |-> m.matrix_map2fullmap,
     matrix_map2cropmap |-> m.matrix_map2cropmap,
     matrix_cropmap2map |-> m.matrix_cropmap2map]

VFRFunctionRoute(map) ==
    RouteWith(map, map.area, "INITIATED", AreaExtent(map.area),
              RouteCalcTransformations(map, AreaExtent(map.area)))

\* VFRLeg.__init__ (through add_leg): the leg of a definition, not yet fitted
VFRLeg(def) ==
    [function_name |-> def.function_name, points |-> def.points,
     matrix_func2cropmap |-> NewLegMatrices.matrix_func2cropmap,
     matrix_cropmap2func |-> NewLegMatrices.matrix_cropmap2func]

(***************************************************************************)
(* Editing a route: the area of interest, the state, the legs.             *)
(***************************************************************************)
\* VFRRouteState: the value auto() gives each member; the conversions
\* follow a route through its first three states
StateValue(state) ==
    CASE state = "INITIATED" -> 1
      [] state = "AREAOFINTEREST" -> 2
      [] state = "WAYPOINTS" -> 3
      [] state = "LEGS" -> 4
      [] state = "ANNOTATIONS" -> 5
      [] state = "FINALIZED" -> 6

\* a route r together with its legs lgs and the record f of the latest
\* leg recomputation
RouteAndLegs(r, lgs, f) == [rte |-> r, legs |-> lgs, fit |-> f]

\* no leg has been recomputed yet
NoFit == [kind |-> "nofit"]

\* the matrices stored on a leg
MatricesOf(leg) ==
    [matrix_func2cropmap |-> leg.matrix_func2cropmap,
     matrix_cropmap2func |-> leg.matrix_cropmap2func]

\* the record of leg.calc_transformations() run on leg n of lgs with the
\* route r
LegFitRecord(n, r, lgs) ==
    LegCalcRecord(n, lgs[n], r, lgs, MatricesOf(lgs[n]))

\* the leg with the matrices m stored on it
LegWith(leg, m) ==
    [leg EXCEPT !.matrix_func2cropmap = m.matrix_func2cropmap,
                !.matrix_cropmap2func = m.matrix_cropmap2func]

\* the legs and the latest record once every leg of the loop
\* "for leg in self.legs: leg.calc_transformations()" has its record in
\* recs (the record stays f when the route has no leg)
LegsStored(lgs, recs, f) ==
    [legs |-> [n \in DOMAIN lgs |-> LegWith(lgs[n], recs[n].new)],
     fit |-> IF DOMAIN lgs = {} THEN f ELSE recs[CHOOSE n \in DOMAIN lgs : TRUE]]

\* "for leg in self.legs: leg.calc_transformations()" with the route r
LegsRecalc(r, lgs, f) ==
    CHOOSE out \in {LegsStored(lgs, recs, f) :
                       recs \in {[n \in DOMAIN lgs |-> LegFitRecord(n, r, lgs)]}} :
        TRUE

\* calc_extents() followed by the route's part of calc_transformations(),
\* as set_state runs them after each forward transition: the extent from
\* the area of interest, the four route matrices from the extent
RouteRecalc(r) ==
    RouteWith(r.map, r.area_of_interest, r.state,
              AreaExtent(r.area_of_interest),
              RouteCalcTransformations(r.map, AreaExtent(r.area_of_interest)))

\* the legs recomputed once the route r has its new matrices
RecalcLegs(r, stored) == RouteAndLegs(r, stored.legs, stored.fit)

\* calc_extents() and calc_transformations()
Recalc(rl) ==
    CHOOSE out \in {RecalcLegs(r, LegsRecalc(r, rl.legs, rl.fit)) :
                       r \in {RouteRecalc(rl.rte)}} : TRUE

WithState(rl, state) == [rl EXCEPT !.rte.state = state]

\* the state a forward step of set_state leads to
NextState(state) ==
    IF state = "INITIATED" THEN "AREAOFINTEREST" ELSE "WAYPOINTS"

\* set_state, forward stepping: "INITIATED -> AREAOFINTEREST", then
\* "AREAOFINTEREST -> WAYPOINTS" (a route without waypoints:
\* waypoints_to_legs has nothing to convert), each followed by
\* calc_extents() and calc_transformations()
RECURSIVE SetStateForward(_, _)
SetStateForward(rl, required_state) ==
    IF StateValue(required_state) > StateValue(rl.rte.state)
    THEN SetStateForward(Recalc(WithState(rl, NextState(rl.rte.state))),
                         required_state)
    ELSE rl

\* VFRFunctionRoute.set_state(required_state)
RouteSetState(rl, required_state) ==
    IF rl.rte.state = required_state THEN rl
    ELSE IF StateValue(rl.rte.state) < StateValue(required_state)
    THEN SetStateForward(rl, required_state)
    ELSE WithState(rl, required_state)

(***************************************************************************)
(* A session that edits a route and converts points.                       *)
(***************************************************************************)
NoRoute == [kind |-> "None"]

NoCall == [status |-> "none"]

\* the coordinates domain code makes points of
PointCoords == {<<RInt(1), RInt(2)>>}

\* the points domain code constructs: any space, with or without a route
\* reference, with or without a leg reference
InputPoints ==
    {VFRPoint(c[1], c[2], sys, r, l) :
        c \in PointCoords, sys \in CoordSystems, r \in {"None", "route"},
        l \in {NoLeg} \cup {LegRef(n) : n \in LegNames}}

\* leg.calc_transformations() of the leg named n
CalcTransformations(n) ==
    /\ UNCHANGED <<tilevars, geomvars, morevars>>
    /\ fit' = LegFitRecord(n, rte, rte_legs)
    /\ rte_legs' = [rte_legs EXCEPT ![n] = LegWith(@, fit'.new)]
    /\ rte_legs' # rte_legs
    /\ UNCHANGED <<rte, held, last, before>>

\* the record of a call self.project_point(to_system) with outcome res
CallRecord(self, to_system, res) ==
    [self |-> self, to_system |-> to_system, status |-> res.status,
     point |-> res.point, applied |-> res.applied]

\* held.project_point(to_system); domain code goes on with the point returned
Project(to_system) ==
    /\ UNCHANGED <<tilevars, geomvars, morevars>>
    /\ last' = CallRecord(held, to_system,
                          ProjectPoint(held, to_system, rte, rte_legs))
    /\ before' = last
    /\ held' = IF last'.status = "ok" THEN last'.point ELSE held
    /\ UNCHANGED <<rte, rte_legs, fit>>

\* a new route stepped to the state WAYPOINTS, in which legs are added
RouteInWaypoints(map) ==
    RouteSetState(RouteAndLegs(VFRFunctionRoute(map), <<>>, NoFit),
                  "WAYPOINTS").rte

\* a route over one of the maps with its leg added, a point in hand
ProjInit ==
    /\ rte \in {RouteInWaypoints(m) : m \in MapDefs}
    /\ rte_legs \in {[n \in LegNames |-> VFRLeg(d)] : d \in LegDefs}
    /\ held \in InputPoints
    /\ last = NoCall
    /\ before = NoCall
    /\ fit = NoFit

ProjNext ==
    \/ \E n \in LegNames : CalcTransformations(n)
    \/ \E to_system \in CoordSystems : Project(to_system)

\* the areas of interest the frontend sends in lon-lat coordinates
AreaInputs ==
    {[top_left |-> <<RInt(1), RInt(3)>>, bottom_right |-> <<RInt(2), RInt(2)>>]}

\* the areas of interest the frontend sends in full map x-y coordinates
AreaXYInputs ==
    {[top_left |-> <<RInt(0), RInt(0)>>, bottom_right |-> <<RInt(6), RInt(3)>>]}

\* the function x values the frontend sends for the two ends of a leg
FuncXInputs == {RInt(0), RInt(1)}

RouteStates == {"INITIATED", "AREAOFINTEREST", "WAYPOINTS"}

\* rte.set_area_of_interest_lonlat(...): the area of interest is replaced;
\* neither the extent nor any matrix is touched
SetAreaOfInterestLonlat(area) ==
    /\ UNCHANGED <<tilevars, geomvars, morevars>>
    /\ rte' = [rte EXCEPT !.area_of_interest = area]
    /\ rte' # rte
    /\ UNCHANGED <<rte_legs, held, last, before, fit>>

\* the lon-lat coordinates of the MAP_XY point xy of route r
MapXYToLonLat(xy, r, lgs) ==
    LET q == ProjectPoint(VFRPoint(xy[1], xy[2], "MAP_XY", "route", NoLeg),
                          "LONLAT", r, lgs).point
    IN  <<q.x, q.y>>

\* rte.set_area_of_interest(...): the corners, given in MAP_XY, are
\* projected to LONLAT with the matrices stored at the moment
SetAreaOfInterest(area) ==
    /\ UNCHANGED <<tilevars, geomvars, morevars>>
    /\ rte' = [rte EXCEPT !.area_of_interest =
                  [top_left |-> MapXYToLonLat(area.top_left, rte, rte_legs),
                   bottom_right |-> MapXYToLonLat(area.bottom_right, rte, rte_legs)]]
    /\ rte' # rte
    /\ UNCHANGED <<rte_legs, held, last, before, fit>>

\* rte.set_state(required_state), the "step" message of the frontend
SetState(required_state) ==
    /\ UNCHANGED <<tilevars, geomvars, morevars>>
    /\ rte.state # required_state
    /\ \E rl \in {RouteSetState(RouteAndLegs(rte, rte_legs, fit), required_state)} :
          /\ rte' = rl.rte
          /\ rte_legs' = rl.legs
          /\ fit' = rl.fit
    /\ UNCHANGED <<held, last, before>>

\* rte.add_leg(...): refused (RuntimeError) before the state WAYPOINTS; the
\* new leg has no matrices and nothing is recomputed
AddLeg(n, def) ==
    /\ UNCHANGED <<tilevars, geomvars, morevars>>
    /\ StateValue(rte.state) >= StateValue("WAYPOINTS")
    /\ n \notin DOMAIN rte_legs
    /\ rte_legs' = [m \in DOMAIN rte_legs \cup {n} |->
                       IF m = n THEN VFRLeg(def) ELSE rte_legs[m]]
    /\ UNCHANGED <<rte, held, last, before, fit>>

\* the leg after update_legs has stored the edit: the function and the
\* function x of the first and of the last constraint point
LegEdited(leg, function_name, x0, x1) ==
    [leg EXCEPT !.function_name = function_name,
                !.points = << <<leg.points[1][1], x0>>, <<leg.points[2][1], x1>> >>]

\* rte.update_legs(...) for the leg named n, the message repeating the
\* function of the leg: the edit is stored, then
\* curleg.calc_transformations()
UpdateLegs(n, x0, x1) ==
    /\ UNCHANGED <<tilevars, geomvars, morevars>>
    /\ n \in DOMAIN rte_legs
    /\ \E lgs \in {[rte_legs EXCEPT ![n] =
                        LegEdited(@, rte_legs[n].function_name, x0, x1)]} :
          /\ fit' = LegFitRecord(n, rte, lgs)
          /\ rte_legs' = [lgs EXCEPT ![n] = LegWith(@, fit'.new)]
    /\ UNCHANGED <<rte, held, last, before>>

\* the map the edited route is made over
EditMapDefs == {m \in MapDefs : m.area.top_left = <<RInt(0), RInt(4)>>}

\* a new route, no leg yet
EditInit ==
    /\ rte \in {VFRFunctionRoute(m) : m \in EditMapDefs}
    /\ rte_legs = <<>>
    /\ held = NoPoint
    /\ last = NoCall
    /\ before = NoCall
    /\ fit = NoFit

EditNext ==
    \/ \E area \in AreaInputs : SetAreaOfInterestLonlat(area)
    \/ \E area \in AreaXYInputs : SetAreaOfInterest(area)
    \/ \E required_state \in RouteStates : SetState(required_state)
    \/ \E n \in LegNames, def \in LegDefs : AddLeg(n, def)
    \/ \E n \in LegNames, x0 \in FuncXInputs, x1 \in FuncXInputs :
          UpdateLegs(n, x0, x1)

(***************************************************************************)
(* TILE GEOMETRY                                                           *)
(*                                                                         *)
(* The sizes a TileRenderer derives at construction, the tiles it lists    *)
(* for an area and the clip it hands to the rasteriser for one tile.       *)
(* Lengths in PDF units are exact rationals, pixel counts are integers.    *)
(***************************************************************************)

\* math.floor
Floor(a) == a[1] \div a[2]

\* math.ceil
Ceil(a) == -((-a[1]) \div a[2])

\* int(): the fraction is dropped, towards zero
IntOf(a) == IF a[1] < 0 THEN Ceil(a) ELSE Floor(a)

PointXY(x, y) == [x |-> x, y |-> y]

SimpleRect(p0, p1) == [p0 |-> p0, p1 |-> p1]

\* pymupdf.Rect
Rect(x0, y0, x1, y1) == [x0 |-> x0, y0 |-> y0, x1 |-> x1, y1 |-> y1]

\* the resolution PDF coordinates are expressed in
ReferenceDpi == 72

\* TileRenderer._scale
ScaleOf(dpi) == RMul(RDiv(ROne, RInt(ReferenceDpi)), RInt(dpi))

\* TileRenderer._crop_rect: the page without its margins
CropRectOf(page_rect, pdf_margins) ==
    Rect(RAdd(page_rect.x0, pdf_margins.p0.x),
         RAdd(page_rect.y0, pdf_margins.p0.y),
         RSub(page_rect.x1, pdf_margins.p1.x),
         RSub(page_rect.y1, pdf_margins.p1.y))

\* TileRenderer.image_size
ImageSizeOf(crop, scale) ==
    PointXY(IntOf(RMul(RSub(crop.x1, crop.x0), scale)),
            IntOf(RMul(RSub(crop.y1, crop.y0), scale)))

\* a tile count that leaves out the last, narrower tile
TileCountOfFloor(image_size, tile_size) ==
    PointXY(Floor(Rat(image_size.x, tile_size.x)),
            Floor(Rat(image_size.y, tile_size.y)))

\* TileRenderer.tile_count
TileCountOf(image_size, tile_size) ==
    PointXY(Ceil(Rat(image_size.x, tile_size.x)),
            Ceil(Rat(image_size.y, tile_size.y)))

\* TileRenderer.__init__, "calculate image and tile sizes"
TileRendererWith(page_rect, pdf_margins, dpi, tile_size, crop, scale) ==
    [page_rect   |-> page_rect,
     pdf_margins |-> pdf_margins,
     dpi         |-> dpi,
     tile_size   |-> tile_size,
     crop_rect   |-> crop,
     scale       |-> scale,
     image_size  |-> ImageSizeOf(crop, scale),
     tile_count  |-> TileCountOf(ImageSizeOf(crop, scale), tile_size)]

TileRenderer(page_rect, pdf_margins, dpi, tile_size) ==
    TileRendererWith(page_rect, pdf_margins, dpi, tile_size,
                     CropRectOf(page_rect, pdf_margins), ScaleOf(dpi))

(* get_tile_order *)

\* range(a, b) as a sequence
RangeSeq(a, b) == [i \in 1 .. (IF b > a THEN b - a ELSE 0) |-> a + i - 1]

\* the square of the distance get_tile_order sorts by; the square root that
\* the code takes of it keeps the order
Distance2(t, cx, cy) ==
    RAdd(RMul(RSub(Rat(2 * t.x + 1, 2), cx), RSub(Rat(2 * t.x + 1, 2), cx)),
         RMul(RSub(Rat(2 * t.y + 1, 2), cy), RSub(Rat(2 * t.y + 1, 2), cy)))

\* a sorted list with one more item, put behind the items that are not
\* farther than it
RECURSIVE InsertByDistance(_, _, _, _)
InsertByDistance(sorted, t, cx, cy) ==
    IF sorted = <<>> THEN <<t>>
    ELSE IF RLess(Distance2(t, cx, cy), Distance2(sorted[Len(sorted)], cx, cy))
         THEN Append(InsertByDistance(SubSeq(sorted, 1, Len(sorted) - 1),
                                      t, cx, cy),
                     sorted[Len(sorted)])
         ELSE Append(sorted, t)

\* list.sort(key = distance): stable, smallest first
RECURSIVE SortByDistance(_, _, _)
SortByDistance(tiles, cx, cy) ==
    IF tiles = <<>> THEN <<>>
    ELSE InsertByDistance(SortByDistance(SubSeq(tiles, 1, Len(tiles) - 1),
                                         cx, cy),
                          tiles[Len(tiles)], cx, cy)

\* an absent argument of get_tile_order
None == "None"

\* "not center_x": true of None and of zero
Falsy(center) == center = None \/ center = RZero

\* all tiles of the grid, column by column
GridTiles(tc) ==
    [i \in 1 .. tc.x * tc.y |-> PointXY((i - 1) \div tc.y, (i - 1) % tc.y)]

GetTileOrder(t, in_tiles, center_x, center_y) ==
    SortByDistance(IF in_tiles # <<>> THEN in_tiles ELSE GridTiles(t.tile_count),
                   IF Falsy(center_x) THEN Rat(t.tile_count.x, 2) ELSE center_x,
                   IF Falsy(center_y) THEN Rat(t.tile_count.y, 2) ELSE center_y)

(* get_tile_list_for_area *)

\* the tiles of an index range, row by row
TileList(x0, x1, y0, y1) ==
    [i \in 1 .. Len(RangeSeq(x0, x1)) * Len(RangeSeq(y0, y1)) |->
        PointXY(x0 + ((i - 1) % (x1 - x0)), y0 + ((i - 1) \div (x1 - x0)))]

TileSizePdf(t) ==
    PointXY(RDiv(RInt(t.tile_size.x), t.scale), RDiv(RInt(t.tile_size.y), t.scale))

\* "list the tiles neccessary"
TileRange(t, crop_rect) ==
    [x0 |-> Floor(RDiv(RSub(crop_rect.p0.x, t.pdf_margins.p0.x), TileSizePdf(t).x)),
     x1 |-> Ceil(RDiv(RSub(crop_rect.p1.x, t.pdf_margins.p0.x), TileSizePdf(t).x)),
     y0 |-> Floor(RDiv(RSub(crop_rect.p0.y, t.pdf_margins.p0.y), TileSizePdf(t).y)),
     y1 |-> Ceil(RDiv(RSub(crop_rect.p1.y, t.pdf_margins.p0.y), TileSizePdf(t).y))]

\* "calculate the region to be cropped", in PDF units
CropPdf(t, crop_rect, r) ==
    LET tileright == RMin(t.crop_rect.x1,
                          RAdd(t.crop_rect.x0, RMul(RInt(r.x1), TileSizePdf(t).x)))
        tilebottom == RMin(t.crop_rect.y1,
                           RAdd(t.crop_rect.y0, RMul(RInt(r.y1), TileSizePdf(t).y)))
    IN  SimpleRect(
            PointXY(RMax(RZero, RSub(RSub(crop_rect.p0.x, t.crop_rect.x0),
                                     RMul(RInt(r.x0), TileSizePdf(t).x))),
                    RMax(RZero, RSub(RSub(crop_rect.p0.y, t.crop_rect.y0),
                                     RMul(RInt(r.y0), TileSizePdf(t).y)))),
            PointXY(RMax(RZero, RSub(tileright, crop_rect.p1.x)),
                    RMax(RZero, RSub(tilebottom, crop_rect.p1.y))))

\* the region to be cropped, in pixels
Cropping(crop_pdf, scale) ==
    SimpleRect(PointXY(IntOf(RMul(crop_pdf.p0.x, scale)),
                       IntOf(RMul(crop_pdf.p0.y, scale))),
               PointXY(IntOf(RMul(crop_pdf.p1.x, scale)),
                       IntOf(RMul(crop_pdf.p1.y, scale))))

\* "calculate the cropped image size"
CroppedImageSize(crop_rect, scale) ==
    PointXY(IntOf(RMul(RSub(crop_rect.p1.x, crop_rect.p0.x), scale)),
            IntOf(RMul(RSub(crop_rect.p1.y, crop_rect.p0.y), scale)))

AreaResult(t, crop_rect, r) ==
    [kind       |-> "area",
     crop_rect  |-> crop_rect,
     tile_list  |-> GetTileOrder(t, TileList(r.x0, r.x1, r.y0, r.y1),
                                 Rat(r.x1 + r.x0, 2), Rat(r.y1 + r.y0, 2)),
     cropping   |-> Cropping(CropPdf(t, crop_rect, r), t.scale),
     image_size |-> CroppedImageSize(crop_rect, t.scale),
     tile_range |-> r]

TileListForArea(t, crop_rect) == AreaResult(t, crop_rect, TileRange(t, crop_rect))

(* render_tile, "calculate the clip coordinates" *)

ClipOf(t, x, y) ==
    Rect(RAdd(t.crop_rect.x0, RDiv(RInt(x * t.tile_size.x), t.scale)),
         RAdd(t.crop_rect.y0, RDiv(RInt(y * t.tile_size.y), t.scale)),
         RMin(t.crop_rect.x1,
              RAdd(t.crop_rect.x0,
                   RDiv(RInt(x * t.tile_size.x + t.tile_size.x - 1), t.scale))),
         RMin(t.crop_rect.y1,
              RAdd(t.crop_rect.y0,
                   RDiv(RInt(y * t.tile_size.y + t.tile_size.y - 1), t.scale))))

(***************************************************************************)
(* A tile server that is asked for the tiles of areas and renders tiles.   *)
(***************************************************************************)

\* no area has been asked for yet
NoAreaCall == [kind |-> "none"]

\* the largest tile indices the model renders
MaxTileX == 2

MaxTileY == 1

\* a small map in two resolutions, one with a page that is no whole
\* number of units wide, and the map of the specification's
\* scenario: a crop of 3000 x 2000 units at 600 DPI in tiles of 512 x 512
RendererInputs ==
    {TileRenderer(Rect(RZero, RZero, RInt(9), RInt(7)),
                  SimpleRect(PointXY(ROne, ROne), PointXY(ROne, ROne)),
                  dpi, PointXY(4, 4)) : dpi \in {72, 108}}
    \cup {TileRenderer(Rect(RZero, RZero, Rat(21, 2), RInt(7)),
                       SimpleRect(PointXY(ROne, ROne), PointXY(ROne, ROne)),
                       72, PointXY(4, 4))}
    \cup {TileRenderer(Rect(RZero, RZero, RInt(3000), RInt(2000)),
                       SimpleRect(PointXY(RZero, RZero), PointXY(RZero, RZero)),
                       600, PointXY(512, 512))}

\* the two edges of an area along x, in PDF units: empty at the origin of the
\* small map, on pixel boundaries, off them, up to the right edge, and
\* reaching out of the map on the left
XEdgeInputs ==
    {<<ROne, ROne>>, <<ROne, RInt(5)>>, <<Rat(3, 2), RInt(4)>>,
     <<RInt(2), RInt(8)>>, <<RInt(-5), RInt(7)>>}

YEdgeInputs == {<<ROne, ROne>>, <<ROne, RInt(3)>>, <<Rat(3, 2), RInt(6)>>}

AreaRectInputs ==
    {SimpleRect(PointXY(x[1], y[1]), PointXY(x[2], y[2])) :
        x \in XEdgeInputs, y \in YEdgeInputs}

\* TileRenderer.rect_to_simplerect
RectToSimplerect(rect) ==
    SimpleRect(PointXY(rect.x0, rect.y0), PointXY(rect.x1, rect.y1))

\* the tiles of the grid that the model renders
TileXInputs(t) == {x \in 0 .. MaxTileX : x < t.tile_count.x}

TileYInputs(t) == {y \in 0 .. MaxTileY : y < t.tile_count.y}

\* get_tile_list_for_area(crop_rect)
GetTileListForArea(crop_rect) ==
    /\ area_call' = TileListForArea(tr, crop_rect)
    /\ UNCHANGED <<tr, clips>>
    /\ UNCHANGED <<tilevars, projvars, morevars>>

\* the "get-low-res-map" message: the tiles of the whole crop rectangle of
\* the renderer of the low resolution
GetLowResMap ==
    /\ tr.dpi = LOW_DPI
    /\ area_call' = TileListForArea(tr, RectToSimplerect(tr.crop_rect))
    /\ area_call' # area_call
    /\ UNCHANGED <<tr, clips>>
    /\ UNCHANGED <<tilevars, projvars, morevars>>

\* render_tile(x, y): the rectangle of the page it rasterises; what it does
\* to the caches are the steps RtRender, RtWrite and RtUpload
RenderTile(x, y) ==
    /\ clips' = [xy \in DOMAIN clips \cup {<<x, y>>} |->
                    IF xy = <<x, y>> THEN ClipOf(tr, x, y) ELSE clips[xy]]
    /\ UNCHANGED <<tr, area_call>>
    /\ UNCHANGED <<tilevars, projvars, morevars>>

GeomInit ==
    /\ tr \in RendererInputs
    /\ area_call = NoAreaCall
    /\ clips = <<>>

GeomNext ==
    \/ \E crop_rect \in AreaRectInputs : GetTileListForArea(crop_rect)
    \/ GetLowResMap
    \/ \E x \in TileXInputs(tr), y \in TileYInputs(tr) : RenderTile(x, y)

\* the tile server before it is asked for any area
GeomQuiet ==
    /\ GeomInit
    /\ tr.dpi = 72
    /\ tr.page_rect.x1 = RInt(9)

(***************************************************************************)
(* TILE REQUESTS AND CACHE KEYS                                            *)
(*                                                                         *)
(* The HTTP endpoint of the tiles, and the names under which get_tile,     *)
(* render_tile and check_cached look a tile up in the two caches.          *)
(***************************************************************************)

\* an id without the separator of the row
GetTileIdNoSeparator(tileset_name, dpi, x, y) ==
    "tilecache_" \o tileset_name \o "_" \o ToString(dpi) \o "DPI_x"
        \o ToString(x) \o ToString(y)

\* TileRenderer.get_tile_id
GetTileId(tileset_name, dpi, x, y) ==
    "tilecache_" \o tileset_name \o "_" \o ToString(dpi) \o "DPI_x"
        \o ToString(x) \o "_y" \o ToString(y)

\* os.path.join(self.datafolder, tile_id + ".png")
TilecacheFname(datafolder, tile_id) == datafolder \o "/" \o tile_id \o ".png"

\* f"tiles/{tile_id}.png"
TilecacheRemote(tile_id) == "tiles/" \o tile_id \o ".png"

\* the names of the maps in the maps/ folder
MapNames == {"m", "m_72DPI_x1"}

\* MapManager.datadir
DataDir == "data"

\* the resolution of the documents, unless the environment sets another
DOC_DPI == 200

\* the resolutions the MapManager of the api is made with
ConfiguredDpis == {LOW_DPI, DOC_DPI, HIGH_DPI}

\* MapDefinition.tilerenderers and MapManager.maps
TileRenderers(name) ==
    [dpi \in ConfiguredDpis |->
        [tileset_name |-> name, dpi |-> dpi, datafolder |-> DataDir]]

Maps == [name \in MapNames |-> [name |-> name, tilerenderers |-> TileRenderers(name)]]

\* the None of a lookup that finds no renderer
NoRenderer == [kind |-> "None"]

\* MapDefinition.get_tilerenderer: self.tilerenderers.get(dpi, None)
MapGetTilerenderer(curmap, dpi) ==
    IF dpi \in DOMAIN curmap.tilerenderers THEN curmap.tilerenderers[dpi] ELSE NoRenderer

\* a lookup that falls back on the low resolution
ManagerGetTilerendererOrLow(mapname, dpi) ==
    IF mapname \notin DOMAIN Maps THEN NoRenderer
    ELSE Maps[mapname].tilerenderers[IF dpi \in ConfiguredDpis THEN dpi ELSE LOW_DPI]

\* MapManager.get_tilerenderer
ManagerGetTilerenderer(mapname, dpi) ==
    IF mapname \notin DOMAIN Maps THEN NoRenderer
    ELSE MapGetTilerenderer(Maps[mapname], dpi)

\* no tile operation has run yet
NoAddr == [op |-> "none"]

\* the first three lines of get_tile, render_tile and check_cached: the
\* entry of the two caches the call works on
Addressed(op, request, renderer, x, y) ==
    [op               |-> op,
     request          |-> request,
     tileset_name     |-> renderer.tileset_name,
     dpi              |-> renderer.dpi,
     x                |-> x,
     y                |-> y,
     tilecache_fname  |-> TilecacheFname(renderer.datafolder,
                             GetTileId(renderer.tileset_name, renderer.dpi, x, y)),
     tilecache_remote |-> TilecacheRemote(
                             GetTileId(renderer.tileset_name, renderer.dpi, x, y))]

\* the answer of the endpoint to a request no renderer matches: the
\* HTTPException is raised before renderer.get_tile is called
BadRequest(tileset_name, dpi, x, y) ==
    [op |-> "bad_request", request |-> <<tileset_name, dpi>>, x |-> x, y |-> y]

\* what the clients ask for: the maps and one that does not exist, the
\* resolutions and one that is not configured
RequestedNames == MapNames \cup {"nomap"}

RequestedDpis == ConfiguredDpis \cup {7}

XInputs == {1, 11}

YInputs == {2, 12}

Record(call) ==
    /\ addr' = call
    /\ addr_before' = addr

\* GET /tile/{tileset_name}/{dpi}/{x}/{y}
HttpGetTile(tileset_name, dpi, x, y) ==
    /\ IF ManagerGetTilerenderer(tileset_name, dpi) = NoRenderer
       THEN Record(BadRequest(tileset_name, dpi, x, y))
       ELSE Record(Addressed("get_tile", <<tileset_name, dpi>>,
                             ManagerGetTilerenderer(tileset_name, dpi), x, y))
    /\ UNCHANGED <<tilevars, projvars, geomvars, stepvars, sessvars>>

\* tr.render_tile(xi, yi) of a configured renderer
RenderTileOf(tileset_name, dpi, x, y) ==
    /\ Record(Addressed("render_tile", <<tileset_name, dpi>>,
                         Maps[tileset_name].tilerenderers[dpi], x, y))
    /\ UNCHANGED <<tilevars, projvars, geomvars, stepvars, sessvars>>

\* tr.check_cached(xi, yi) of a configured renderer
CheckCachedOf(tileset_name, dpi, x, y) ==
    /\ Record(Addressed("check_cached", <<tileset_name, dpi>>,
                         Maps[tileset_name].tilerenderers[dpi], x, y))
    /\ UNCHANGED <<tilevars, projvars, geomvars, stepvars, sessvars>>

KeyInit ==
    /\ addr = NoAddr
    /\ addr_before = NoAddr

KeyNext ==
    \/ \E tileset_name \in RequestedNames, dpi \in RequestedDpis,
          x \in XInputs, y \in YInputs : HttpGetTile(tileset_name, dpi, x, y)
    \/ \E tileset_name \in MapNames, dpi \in ConfiguredDpis,
          x \in XInputs, y \in YInputs : RenderTileOf(tileset_name, dpi, x, y)
    \/ \E tileset_name \in MapNames, dpi \in ConfiguredDpis,
          x \in XInputs, y \in YInputs : CheckCachedOf(tileset_name, dpi, x, y)

\* no tile has been asked for
KeyQuiet == KeyInit

(***************************************************************************)
(* THE STEPS OF A ROUTE                                                    *)
(*                                                                         *)
(* The state of a route with its waypoints, legs and tracks: set_state     *)
(* with the conversions it runs on the way, and the track list.  A leg is  *)
(* its name and the number of its annotations, a track its file name and   *)
(* its colour, kept with the name add_track was asked for and the number   *)
(* of turns its loop took.                                                 *)
(***************************************************************************)

\* the most tracks a route gets
MaxTracks == 3

VFRRouteState ==
    {"INITIATED", "AREAOFINTEREST", "WAYPOINTS", "LEGS", "ANNOTATIONS", "FINALIZED"}

\* VFRRouteState(step)
StateOfValue(step) == CHOOSE state \in VFRRouteState : StateValue(state) = step

\* VFRFunctionRoute.__init__, with the lists from_dict fills in
NewRoute(waypoints, legs, tracks) ==
    [state |-> "INITIATED", waypoints |-> waypoints, legs |-> legs,
     tracks |-> tracks]

\* the two annotations every leg needs: the first and the last one are
\* adjusted, or added when missing
WithEndAnnotations(leg) ==
    [leg EXCEPT !.annotations = IF @ < 2 THEN 2 ELSE @]

\* VFRFunctionRoute.legs_to_annotations
LegsToAnnotations(r) ==
    [r EXCEPT !.legs = [i \in DOMAIN r.legs |-> WithEndAnnotations(r.legs[i])]]

\* VFRFunctionRoute.finalize: ensure_state(ANNOTATIONS) holds where
\* set_state calls it
Finalize(r) == [r EXCEPT !.state = "FINALIZED"]

\* f"{wp_start[0]} -- {wp_end[0]}"
LegName(wp_start, wp_end) == wp_start \o " -- " \o wp_end

\* the waypoint a leg from the ith waypoint ends at: the route goes around
WpEnd(waypoints, i) ==
    waypoints[IF i + 1 <= Len(waypoints) THEN i + 1 ELSE 1]

RECURSIVE SetStateTo(_, _)
RECURSIVE WaypointsToLegsFrom(_, _)
\* waypoints_to_legs, the turns of the loop from waypoint i on
WaypointsToLegsFrom(r, i) ==
    IF i > Len(r.waypoints) THEN r
    ELSE IF Len(r.legs) >= i
    THEN LET named  == [r EXCEPT !.legs[i].name =
                           LegName(r.waypoints[i], WpEnd(r.waypoints, i))]
             in_legs == SetStateTo(named, "LEGS")
         IN  WaypointsToLegsFrom(
                 [in_legs EXCEPT !.legs[i] = WithEndAnnotations(@)], i + 1)
    ELSE WaypointsToLegsFrom(
             [r EXCEPT !.legs = Append(@,
                 [name |-> LegName(r.waypoints[i], WpEnd(r.waypoints, i)),
                  annotations |-> 0])], i + 1)

\* VFRFunctionRoute.set_state(required_state). The extents and the
\* matrices calc_extents and calc_transformations store are left out here.
SetStateTo(r, required_state) ==
    IF r.state = required_state THEN r
    ELSE IF StateValue(r.state) < StateValue(required_state)
    THEN LET r1 == IF r.state = "INITIATED"
                      /\ StateValue(required_state) > StateValue(r.state)
                   THEN [r EXCEPT !.state = "AREAOFINTEREST"] ELSE r
             r2 == IF r1.state = "AREAOFINTEREST"
                      /\ StateValue(required_state) > StateValue(r1.state)
                   THEN WaypointsToLegsFrom([r1 EXCEPT !.state = "WAYPOINTS"], 1)
                   ELSE r1
             r3 == IF r2.state = "WAYPOINTS"
                      /\ StateValue(required_state) > StateValue(r2.state)
                   THEN LegsToAnnotations([r2 EXCEPT !.state = "LEGS"]) ELSE r2
             r4 == IF r3.state = "LEGS"
                      /\ StateValue(required_state) > StateValue(r3.state)
                   THEN [r3 EXCEPT !.state = "ANNOTATIONS"] ELSE r3
         IN  IF r4.state = "ANNOTATIONS"
                /\ StateValue(required_state) > StateValue(r4.state)
             THEN Finalize(r4) ELSE r4
    ELSE [r EXCEPT !.state = required_state]

\* VFRFunctionRoute.waypoints_to_legs
WaypointsToLegs(r) == WaypointsToLegsFrom(r, 1)

\* no call of set_state is the latest thing that happened to the route
NoStateCall == [kind |-> "none"]

\* set_state(required_state) has returned for a route that was in the
\* state from
Returned(from, required_state) ==
    [kind |-> "returned", from |-> from.state, required |-> required_state,
     waypoints |-> Len(from.waypoints), legs |-> Len(from.legs)]

\* the "step" message: msg.get("step", ...) of the frontend; a value that
\* is no VFRRouteState gives invalid-step-value, zero does nothing
DoStep(step) ==
    /\ IF step > 0 /\ \E state \in VFRRouteState : StateValue(state) = step
       THEN /\ sroute' = SetStateTo(sroute, StateOfValue(step))
            /\ set_state_call' = Returned(sroute, StateOfValue(step))
       ELSE /\ sroute' = sroute
            /\ set_state_call' = NoStateCall
    /\ <<sroute, set_state_call>>' # <<sroute, set_state_call>>
    /\ UNCHANGED <<tilevars, projvars, geomvars, keyvars, sessvars>>

\* the names of the waypoints the frontend sends
WaypointInputs == {<<>>, <<"A">>, <<"A", "B">>, <<"B", "A">>}

\* the "update-wps" message: rte.update_waypoints(msg.get("waypoints"))
UpdateWaypoints(wps) ==
    /\ sroute' = [sroute EXCEPT !.waypoints = wps]
    /\ sroute' # sroute
    /\ set_state_call' = NoStateCall
    /\ UNCHANGED <<tilevars, projvars, geomvars, keyvars, sessvars>>

\* VFRFunctionRoute.from_dict of what to_dict made of the route: a new
\* route is given the waypoints, the legs and the tracks, then brought to
\* the saved state
FromDict ==
    /\ sroute' = SetStateTo(NewRoute(sroute.waypoints, sroute.legs, sroute.tracks),
                            sroute.state)
    /\ set_state_call' =
           Returned(NewRoute(sroute.waypoints, sroute.legs, sroute.tracks),
                    sroute.state)
    /\ <<sroute, set_state_call>>' # <<sroute, set_state_call>>
    /\ UNCHANGED <<tilevars, projvars, geomvars, keyvars, sessvars>>

\* the file names of the uploaded tracks, with what os.path.splitext
\* makes of them
Splitext ==
    [fname \in {"t.gpx", "t_000.gpx"} |->
        CASE fname = "t.gpx"     -> <<"t", ".gpx">>
          [] fname = "t_000.gpx" -> <<"t_000", ".gpx">>]

\* f"{i:03d}"
Format03d(i) ==
    IF i < 10 THEN "00" \o ToString(i)
    ELSE IF i < 100 THEN "0" \o ToString(i)
    ELSE ToString(i)

\* the names of the tracks
TrackNames(tracks) == {tracks[k].fname : k \in DOMAIN tracks}

\* a test of the name that finds nothing
NameTakenNever(fname, tracks) == FALSE

\* fname in (t.fname for t in self.tracks)
NameTaken(fname, tracks) == fname \in TrackNames(tracks)

\* the while loop of add_track: the name the track gets and the number of
\* turns the loop has taken
RECURSIVE FreeName(_, _, _, _)
FreeName(fname, of, i, tracks) ==
    IF NameTaken(fname, tracks)
    THEN FreeName(of[1] \o "_" \o Format03d(i) \o of[2], of, i + 1, tracks)
    ELSE [fname |-> fname, i |-> i]

\* the "load-track" message: rte.add_track(filename, color, data), refused
\* (RuntimeError) before the state ANNOTATIONS
AddTrack(fname, color) ==
    /\ StateValue(sroute.state) >= StateValue("ANNOTATIONS")
    /\ Len(sroute.tracks) < MaxTracks
    /\ sroute' = [sroute EXCEPT !.tracks =
                     Append(@, [fname |-> FreeName(fname, Splitext[fname], 0, @).fname,
                                asked |-> fname,
                                turns |-> FreeName(fname, Splitext[fname], 0, @).i,
                                color |-> color])]
    /\ set_state_call' = NoStateCall
    /\ UNCHANGED <<tilevars, projvars, geomvars, keyvars, sessvars>>

\* the tracks update_tracks keeps: those the message names, in their order
RECURSIVE KeptTracks(_, _, _)
KeptTracks(tracks, names, color) ==
    IF tracks = <<>> THEN <<>>
    ELSE (IF Head(tracks).fname \in names
          THEN <<[Head(tracks) EXCEPT !.color = color]>> ELSE <<>>)
         \o KeptTracks(Tail(tracks), names, color)

\* the "update-tracks" message: rte.update_tracks(msg.get("tracks")), the
\* message giving one colour to the tracks it names
UpdateTracks(names, color) ==
    /\ sroute.tracks # <<>>
    /\ sroute' = [sroute EXCEPT !.tracks = KeptTracks(@, names, color)]
    /\ sroute' # sroute
    /\ set_state_call' = NoStateCall
    /\ UNCHANGED <<tilevars, projvars, geomvars, keyvars, sessvars>>

\* the names the messages of the frontend keep
KeptNames == {"t.gpx", "t_000.gpx", "t_001.gpx"}

Colors == {"#0000FF", "#FF0000"}

\* a new route: no waypoint, no leg, no track
StepInit ==
    /\ sroute = NewRoute(<<>>, <<>>, <<>>)
    /\ set_state_call = NoStateCall

StepNext ==
    \/ \E step \in 0 .. 7 : DoStep(step)
    \/ \E wps \in WaypointInputs : UpdateWaypoints(wps)
    \/ FromDict

\* the steps and the track messages of a session that sets no waypoint
TrackNext ==
    \/ \E step \in 0 .. 7 : DoStep(step)
    \/ \E fname \in DOMAIN Splitext : AddTrack(fname, "#0000FF")
    \/ \E names \in SUBSET KeptNames, color \in Colors :
          UpdateTracks(names, color)

\* no route is being stepped
StepQuiet == StepInit

(***************************************************************************)
(* SESSIONS                                                                *)
(*                                                                         *)
(* The session store of the api with its time-to-live, the sockets with    *)
(* the session they joined, and the wrapper that hands the session to the  *)
(* event handlers.  Time is counted in whole ticks.                        *)
(***************************************************************************)

\* the number of sessions allowed, as the environment of the model sets it
MAX_SESSIONS == 1

\* the time-to-live of a session, in ticks
SessionTtl == 1

\* the ticks the clock makes
MaxTime == 3

\* the sockets
Sids == {"s1", "s2"}

\* the session ids clients bring in their cookie or get generated
SessionIds == {"a", "b"}

\* the keys the store dictionary can get
StoreKeys == SessionIds \cup {None}

\* _store.get(session_id) finds nothing
NoItem == [kind |-> "None"]

\* SessionStore.__init__
EmptyStore == [k \in StoreKeys |-> NoItem]

\* SessionStore.set
StoreSet(s, session_id, data, t) ==
    [s EXCEPT ![session_id] = [expiry |-> t + SessionTtl, data |-> data]]

\* SessionStore.get: the store after the call and the data returned
StoreGet(s, session_id, t) ==
    IF s[session_id] = NoItem THEN [store |-> s, data |-> None]
    ELSE IF t > s[session_id].expiry
    THEN [store |-> [s EXCEPT ![session_id] = NoItem], data |-> None]
    ELSE [store |-> s, data |-> s[session_id].data]

\* SessionStore.delete
StoreDelete(s, session_id) == [s EXCEPT ![session_id] = NoItem]

\* SessionStore.count
StoreCount(s) == Cardinality({k \in StoreKeys : s[k] # NoItem})

\* SessionStore.touch
StoreTouch(s, session_id, t) ==
    IF s[session_id] = NoItem THEN s
    ELSE [s EXCEPT ![session_id].expiry = t + SessionTtl]

\* SessionStore.cleanup
StoreCleanup(s, t) ==
    [k \in StoreKeys |-> IF s[k] # NoItem /\ t > s[k].expiry THEN NoItem ELSE s[k]]

\* the socket is not connected
Off == "off"

\* _get_session_id_from_room: the room of the socket besides its own
SessionIdFromRoom(sid) == rooms[sid]

\* get_session(sid): the session id, the route and the store afterwards
GetSession(sid) ==
    IF SessionIdFromRoom(sid) = None
    THEN [session_id |-> None, rte |-> None, store |-> vfrroutes]
    ELSE [session_id |-> SessionIdFromRoom(sid),
          rte   |-> StoreGet(StoreTouch(vfrroutes, SessionIdFromRoom(sid), now),
                             SessionIdFromRoom(sid), now).data,
          store |-> StoreGet(StoreTouch(vfrroutes, SessionIdFromRoom(sid), now),
                             SessionIdFromRoom(sid), now).store]

\* what an event did: the session and the route it looked up, the results
\* it emitted, whether the wrapped handler ran
EventRecord(name, sid, session_id, route, emitted, invoked) ==
    [name |-> name, sid |-> sid, session_id |-> session_id, rte |-> route,
     emitted |-> emitted, invoked |-> invoked]

NoEvent == EventRecord("none", None, None, None, <<>>, FALSE)

\* the results the wrapper of require_session emits before the handler
WrapperEmits(gs, require_route) ==
    (IF gs.session_id = None THEN <<"no-session">> ELSE <<>>)
    \o (IF require_route /\ gs.rte = None THEN <<"no-route">> ELSE <<>>)

\* require_session(require_route): the wrapper returns without the
\* handler only when a route is required and there is none
HandlerInvoked(gs, require_route) == ~(require_route /\ gs.rte = None)

\* the "connect" event of a socket with the session id of its cookie, or
\* a generated one
Connect(sid, session_id) ==
    /\ rooms[sid] = Off
    /\ vfrroutes' = StoreGet(vfrroutes, session_id, now).store
    /\ IF StoreGet(vfrroutes, session_id, now).data = None
          /\ StoreCount(vfrroutes') >= MAX_SESSIONS
       THEN /\ rooms' = [rooms EXCEPT ![sid] = None]
            /\ event' = EventRecord("connect", sid, session_id, None,
                                    <<"unauthorized">>, FALSE)
       ELSE /\ rooms' = [rooms EXCEPT ![sid] = session_id]
            /\ event' = EventRecord("connect", sid, session_id,
                                    StoreGet(vfrroutes, session_id, now).data,
                                    <<"set_session">>, FALSE)
    /\ UNCHANGED now
    /\ UNCHANGED <<tilevars, projvars, geomvars, keyvars, stepvars>>

\* the socket goes away: by itself, or disconnected after "unauthorized"
Disconnect(sid) ==
    /\ rooms[sid] # Off
    /\ rooms' = [rooms EXCEPT ![sid] = Off]
    /\ event' = EventRecord("disconnect", sid, None, None, <<>>, FALSE)
    /\ UNCHANGED <<vfrroutes, now>>
    /\ UNCHANGED <<tilevars, projvars, geomvars, keyvars, stepvars>>

\* the events that open a route in the session
OpeningEvents == {"create", "sample", "load", "load-published"}

\* create_new_route, create_sample, load_local_route, load_published_route
\* behind require_session(False): the route is made and stored, unless
\* making it raises (ok = FALSE)
OpenRoute(sid, name, ok) ==
    /\ rooms[sid] # Off
    /\ \E gs \in {GetSession(sid)} :
          /\ event' = EventRecord(name, sid, gs.session_id, gs.rte,
                                  WrapperEmits(gs, FALSE),
                                  HandlerInvoked(gs, FALSE))
          /\ vfrroutes' = IF HandlerInvoked(gs, FALSE) /\ ok
                          THEN StoreSet(gs.store, gs.session_id, "route", now)
                          ELSE gs.store
    /\ UNCHANGED <<rooms, now>>
    /\ UNCHANGED <<tilevars, projvars, geomvars, keyvars, stepvars>>

\* an editing event behind require_session(True) that stores the route
\* again: update-wps and the like
EditRoute(sid) ==
    /\ rooms[sid] # Off
    /\ \E gs \in {GetSession(sid)} :
          /\ event' = EventRecord("update-wps", sid, gs.session_id, gs.rte,
                                  WrapperEmits(gs, TRUE),
                                  HandlerInvoked(gs, TRUE))
          /\ vfrroutes' = IF HandlerInvoked(gs, TRUE)
                          THEN StoreSet(gs.store, gs.session_id, gs.rte, now)
                          ELSE gs.store
    /\ UNCHANGED <<rooms, now>>
    /\ UNCHANGED <<tilevars, projvars, geomvars, keyvars, stepvars>>

\* close_route behind require_session(True)
CloseRoute(sid) ==
    /\ rooms[sid] # Off
    /\ \E gs \in {GetSession(sid)} :
          /\ event' = EventRecord("close-route", sid, gs.session_id, gs.rte,
                                  WrapperEmits(gs, TRUE),
                                  HandlerInvoked(gs, TRUE))
          /\ vfrroutes' = IF HandlerInvoked(gs, TRUE)
                          THEN StoreDelete(gs.store, gs.session_id)
                          ELSE gs.store
    /\ UNCHANGED <<rooms, now>>
    /\ UNCHANGED <<tilevars, projvars, geomvars, keyvars, stepvars>>

\* time.time() moves on
Tick ==
    /\ now < MaxTime
    /\ now' = now + 1
    /\ UNCHANGED <<vfrroutes, rooms, event>>
    /\ UNCHANGED <<tilevars, projvars, geomvars, keyvars, stepvars>>

\* a turn of cleanup_loop
Cleanup ==
    /\ vfrroutes' = StoreCleanup(vfrroutes, now)
    /\ vfrroutes' # vfrroutes
    /\ UNCHANGED <<rooms, now, event>>
    /\ UNCHANGED <<tilevars, projvars, geomvars, keyvars, stepvars>>

\* the api after start-up: no saved session, no socket
SessInit ==
    /\ vfrroutes = EmptyStore
    /\ now = 0
    /\ rooms = [sid \in Sids |-> Off]
    /\ event = NoEvent

SessNext ==
    \/ \E sid \in Sids, session_id \in SessionIds : Connect(sid, session_id)
    \/ \E sid \in Sids : Disconnect(sid)
    \/ \E sid \in Sids, name \in OpeningEvents, ok \in BOOLEAN :
          OpenRoute(sid, name, ok)
    \/ \E sid \in Sids : EditRoute(sid)
    \/ \E sid \in Sids : CloseRoute(sid)
    \/ Tick
    \/ Cleanup

\* no socket has connected
SessQuiet == SessInit

\* no session has made a route yet
ProjQuiet ==
    /\ rte = NoRoute
    /\ rte_legs = <<>>
    /\ held = NoPoint
    /\ last = NoCall
    /\ before = NoCall
    /\ fit = NoFit

\* the tile server at rest, without a remote cache
TileQuiet ==
    /\ TileInit
    /\ has_remote = FALSE

\* everything besides the tile caches, the route and the tile geometry at rest
MoreQuiet == KeyQuiet /\ StepQuiet /\ SessQuiet

\* the conversions of one session, the tile server at rest
ProjSpecInit == ProjInit /\ TileQuiet /\ GeomQuiet /\ MoreQuiet

ProjSpec == ProjSpecInit /\ [][ProjNext]_vars

\* the edits of one session, the tile server at rest
EditSpecInit == EditInit /\ TileQuiet /\ GeomQuiet /\ MoreQuiet

EditSpec == EditSpecInit /\ [][EditNext]_vars

\* the geometry of the tile server, its caches at rest and no session
GeomSpecInit == GeomInit /\ TileQuiet /\ ProjQuiet /\ MoreQuiet

GeomSpec == GeomSpecInit /\ [][GeomNext]_vars

\* the tile requests, everything else at rest
KeySpecInit == KeyInit /\ TileQuiet /\ ProjQuiet /\ GeomQuiet /\ StepQuiet /\ SessQuiet

KeySpec == KeySpecInit /\ [][KeyNext]_vars

\* one route stepped and edited, everything else at rest
StepSpecInit == StepInit /\ TileQuiet /\ ProjQuiet /\ GeomQuiet /\ KeyQuiet /\ SessQuiet

StepSpec == StepSpecInit /\ [][StepNext]_vars

\* the sockets and the session store, everything else at rest
SessSpecInit ==
    SessInit /\ TileQuiet /\ ProjQuiet /\ GeomQuiet /\ KeyQuiet /\ StepQuiet

SessSpec == SessSpecInit /\ [][SessNext]_vars

\* one route stepped and given tracks, everything else at rest
TrackSpec == StepSpecInit /\ [][TrackNext]_vars

(***************************************************************************)
(* Specifications of the tile cache chain.                                 *)
(***************************************************************************)

\* the tile server, no session having made a route
TileSpecInit == TileInit /\ ProjQuiet /\ GeomQuiet /\ MoreQuiet

\* one caller that makes its get_tile calls one after the other; the remote
\* store may fail at every operation
SeqNext == GetTileStep("r1")

SeqSpec == TileSpecInit /\ [][SeqNext]_vars

\* two concurrent callers of get_tile in the web process and the
\* pregeneration process, interleaved at every step, nobody abandoned
RaceNext ==
    \/ \E p \in Requests : GetTileStep(p)
    \/ PregenStep

RaceSpec == TileSpecInit /\ [][RaceNext]_vars

\* one caller and the pregeneration process, either of which may be
\* abandoned in the middle of a call
AbandonNext ==
    \/ GetTileStep("r1")
    \/ PregenStep
    \/ \E p \in {"r1", Pregen} : Abandon(p)

AbandonSpec == TileSpecInit /\ [][AbandonNext]_vars

\* the pregeneration process beside one caller of get_tile. The process is
\* started at start-up and the operating system keeps scheduling it: it
\* goes on taking steps as long as it has one to take.
PregenNext ==
    \/ GetTileStep("r1")
    \/ PregenStep

PregenSpec == TileSpecInit /\ [][PregenNext]_vars /\ WF_vars(PregenStep)

(***************************************************************************)
(* The whole program.                                                      *)
(***************************************************************************)
Init == TileInit /\ ProjInit /\ GeomInit /\ KeyInit /\ StepInit /\ SessInit

Next == TileNext \/ ProjNext \/ GeomNext \/ KeyNext \/ StepNext \/ TrackNext \/ SessNext

Spec == Init /\ [][Next]_vars

(***************************************************************************)
(* PROPERTIES OF THE TILE CACHE CHAIN                                      *)
(***************************************************************************)

\* C1: a failure of the remote store never fails a tile request: every
\* get_tile call that has finished has handed its caller the tile.
C1_RemoteFailureNeverFailsRequest ==
    \A p \in Requests : pc[p] = "done" => result[p].status = "ok"

\* C2: the tiers are tried in order and the first hit ends the search: the
\* remote store is asked only after a local miss, a render starts only after
\* a miss in both, a remote hit is downloaded into the local cache without a
\* render, and a tile that was rendered is in the local and the remote cache
\* when get_tile returns it.
C2_TiersInOrder ==
    \A p \in Requests :
        /\ obs[p].saw_remote # "unasked" => has_remote /\ obs[p].saw_local = "miss"
        /\ obs[p].saw_local = "hit" =>
               /\ obs[p].saw_remote = "unasked"
               /\ ~obs[p].rendered /\ ~obs[p].downloaded
        /\ obs[p].downloaded => obs[p].saw_remote = "hit" /\ ~obs[p].rendered
        /\ obs[p].rendered =>
               /\ obs[p].saw_local = "miss"
               /\ obs[p].saw_remote = IF has_remote THEN "miss" ELSE "unasked"
        /\ pc[p] = "gt_exists" => local[cur[p]] = "none"
        /\ pc[p] = "gt_download" =>
               local[cur[p]] = "none" /\ remote[cur[p]] = "full"
        /\ pc[p] = "rt_render" =>
               local[cur[p]] = "none" /\ remote[cur[p]] = "none"
        /\ (pc[p] = "done" /\ result[p].status = "ok" /\ obs[p].downloaded) =>
               local[cur[p]] = "full"
        /\ (pc[p] = "done" /\ result[p].status = "ok" /\ obs[p].rendered) =>
               /\ local[cur[p]] = "full"
               /\ has_remote => remote[cur[p]] = "full" /\ obs[p].uploaded

\* C2, its case: a call returned a tile it rendered after a miss in both
\* tiers, and the tile is now in both caches
C2_Witness ==
    \E p \in Requests :
        /\ pc[p] = "done" /\ result[p].status = "ok"
        /\ has_remote /\ obs[p].rendered /\ obs[p].saw_remote = "miss"
        /\ local[cur[p]] = "full" /\ remote[cur[p]] = "full"

\* C3: whatever the interleaving of concurrent get_tile calls and the
\* pregeneration, nothing is corrupted: no request reads a partially written
\* cache file, and no cache entry is left partial once its writers are
\* through, locally or in the remote store.
C3_NoCorruption ==
    /\ \A p \in Requests : result[p].status # "torn"
    /\ \A t \in Tiles :
           (\A p \in Procs : ~(InCall(p) /\ cur[p] = t)) =>
               local[t] # "partial" /\ remote[t] # "partial"

\* C4: there is no partial or torn cache write: a tile whose render or
\* download was abandoned has no local entry, and an entry that readers can
\* see is complete.
C4_NoTornWrite ==
    /\ \A t \in Tiles :
           (\A p \in Procs : ~(InCall(p) /\ cur[p] = t)) => local[t] # "partial"
    /\ \A p \in Requests : pc[p] = "gt_read" => local[cur[p]] = "full"

\* C5: cache idempotence: over any sequence of get_tile calls made one after
\* the other, a tile is rendered at most once, and all the rasters returned
\* for it are the same.
C5_CacheIdempotence ==
    \A t \in Tiles : renders[t] <= 1 /\ Cardinality(returned[t]) <= 1

\* C5, its case: a later call for a tile an earlier call rendered has
\* returned, served from the local cache
C5_Witness ==
    \E p \in Requests :
        /\ pc[p] = "done" /\ result[p].status = "ok"
        /\ obs[p].saw_local = "hit"
        /\ renders[cur[p]] = 1

(***************************************************************************)
(* PROPERTIES OF project_point                                             *)
(***************************************************************************)

\* the spaces in the order Curve < CroppedRaster < MapRaster <
\* ProjectedWorld < Geodetic, as the specification of the pipeline lists them
SpaceOrder == <<"FUNCTION", "MAPCROP_XY", "MAP_XY", "FULL_WORLD_XY", "LONLAT">>

SpacePos(sys) == CHOOSE i \in 1 .. Len(SpaceOrder) : SpaceOrder[i] = sys

\* the transform of the adjacent pair (SpaceOrder[i], SpaceOrder[i + 1]):
\* the forward one leads toward Curve, its inverse toward Geodetic
ForwardOfPair == <<"matrix_cropmap2func", "matrix_map2cropmap",
                   "matrix_fullmap2map", "proj">>

InverseOfPair == <<"matrix_func2cropmap", "matrix_cropmap2map",
                   "matrix_map2fullmap", "proj_inverse">>

\* the transforms lying between the spaces s and t, in walking order
TransformsBetween(s, t) ==
    IF SpacePos(s) > SpacePos(t)
    THEN [k \in 1 .. SpacePos(s) - SpacePos(t) |-> ForwardOfPair[SpacePos(s) - k]]
    ELSE [k \in 1 .. SpacePos(t) - SpacePos(s) |-> InverseOfPair[SpacePos(s) + k - 1]]

IsPrefix(a, b) == Len(a) <= Len(b) /\ \A k \in 1 .. Len(a) : a[k] = b[k]

\* the space of the receiver or the target of the call c is Curve
CurveInvolved(c) == "FUNCTION" \in {c.self.coord_system, c.to_system}

\* C6: project_point fails with the missing-leg-reference error and hands
\* back no point whenever the point has no leg reference and the point's
\* space or the target space is Curve; the caller is left with the error,
\* not with a point made up in its place.
C6_MissingLegRaises ==
    (last # NoCall /\ last.self.leg = NoLeg /\ CurveInvolved(last)) =>
        /\ last.status = "ValueError"
        /\ last.point = NoPoint
        /\ held = last.self

\* C6, its case: a call on a point without a leg reference, to or from
\* Curve, has raised
C6_Witness ==
    /\ last # NoCall /\ last.self.leg = NoLeg /\ CurveInvolved(last)
    /\ last.self.coord_system # last.to_system
    /\ last.status = "ValueError"

\* C7: whenever project_point succeeds, the point it returns carries the
\* route reference and the leg reference of the point it was called on.
C7_SameReferences ==
    (last # NoCall /\ last.status = "ok") =>
        /\ last.point.route = last.self.route
        /\ last.point.leg = last.self.leg

\* the calls before and last are a round trip over an adjacent pair: before
\* took a point p (with a leg reference when the pair includes Curve) to the
\* neighbouring space, and last took the point returned back to p's space
IsRoundTrip ==
    /\ before # NoCall /\ last # NoCall
    /\ before.status = "ok"
    /\ last.self = before.point
    /\ last.to_system = before.self.coord_system
    /\ SpacePos(before.self.coord_system) - SpacePos(before.to_system) \in {-1, 1}
    /\ CurveInvolved(before) => before.self.leg \in {LegRef(n) : n \in LegNames}

\* C8: round trip: projecting a point to an adjacent space and the result
\* back succeeds and yields the coordinates of the point again.
C8_RoundTrip ==
    IsRoundTrip =>
        /\ last.status = "ok"
        /\ last.point.x = before.self.x
        /\ last.point.y = before.self.y

\* C9: project_point walks the order of the spaces one adjacent step at a
\* time: a call that returns has applied exactly the transforms lying
\* between the point's space and the target, in order, and returns a point
\* tagged with the target; a call that raises has applied no transform
\* outside that range, and raises only for want of a route, of a leg, or of
\* the matrices of a leg that was never fitted.
C9_MonotoneWalk ==
    last # NoCall =>
        LET want == TransformsBetween(last.self.coord_system, last.to_system)
        IN  /\ IsPrefix(last.applied, want)
            /\ last.status = "ok" =>
                   /\ last.applied = want
                   /\ last.point.coord_system = last.to_system
            /\ last.status \in {"ok", "ValueError", "AttributeError", "TypeError"}
            /\ last.status = "ValueError" =>
                   last.self.leg = NoLeg /\ CurveInvolved(last)
            /\ last.status = "AttributeError" =>
                   \/ last.self.route = "None"
                   \/ CurveInvolved(last) /\ last.self.leg.kind = "point"
            /\ last.status = "TypeError" =>
                   CurveInvolved(last) /\ last.self.leg.kind = "leg"

\* C9, its case: a call has walked the whole order, from Curve to Geodetic
C9_Witness ==
    /\ last # NoCall /\ last.status = "ok"
    /\ last.self.coord_system = "FUNCTION" /\ last.to_system = "LONLAT"
    /\ Len(last.applied) = 4
    /\ last.point.coord_system = "LONLAT"

\* C10 as stated: for every point p in any of the five spaces,
\* project_point(p, p.space) returns p itself, unchanged.
C10_Identity ==
    (last # NoCall /\ last.to_system = last.self.coord_system) =>
        last.status = "ok" /\ last.point = last.self

\* C10: for every point p that is not a Curve point without a leg
\* reference, project_point(p, p.space) returns p itself, unchanged, and
\* applies no transform.
C10_IdentityUnlessMissingLeg ==
    (/\ last # NoCall /\ last.to_system = last.self.coord_system
     /\ ~(last.self.coord_system = "FUNCTION" /\ last.self.leg = NoLeg)) =>
        /\ last.status = "ok"
        /\ last.point = last.self
        /\ last.applied = <<>>
        /\ held = last.self

\* C10, its case: a Curve point with a leg reference was projected to Curve
C10_Witness ==
    /\ last # NoCall /\ last.to_system = last.self.coord_system
    /\ last.self.coord_system = "FUNCTION" /\ last.self.leg # NoLeg
    /\ last.status = "ok" /\ last.point = last.self

(***************************************************************************)
(* Claims about the fits of a route and its legs.                          *)
(***************************************************************************)

\* C11 as stated: when the fit of a leg fails on degenerate or singular
\* input, calc_transformations retains the previous transform: both stored
\* matrices keep the values they had before the call.
C11_FailedFitRetains ==
    (/\ fit # NoFit /\ fit.failed
     /\ fit.old.matrix_func2cropmap # NoMatrix
     /\ fit.old.matrix_cropmap2func # NoMatrix) =>
        fit.new = fit.old

Identity3 ==
    << <<ROne, RZero, RZero>>, <<RZero, ROne, RZero>>, <<RZero, RZero, ROne>> >>

\* the pair (forward, inverse) is entirely unset, or inverse * forward is
\* the identity
UnsetOrInverse(forward, inverse) ==
    \/ forward = NoMatrix /\ inverse = NoMatrix
    \/ /\ forward # NoMatrix /\ inverse # NoMatrix
       /\ MatMul3(inverse, forward) = Identity3

\* C12 as stated: every stored pair of matrices, of the route and of each
\* leg, is entirely unset or the stored inverse is the inverse of the
\* stored forward matrix, after any sequence of recomputations.
C12_StoredWithInverse ==
    /\ UnsetOrInverse(rte.matrix_fullmap2map, rte.matrix_map2fullmap)
    /\ UnsetOrInverse(rte.matrix_map2cropmap, rte.matrix_cropmap2map)
    /\ \A n \in DOMAIN rte_legs :
          UnsetOrInverse(rte_legs[n].matrix_func2cropmap,
                         rte_legs[n].matrix_cropmap2func)

\* the point pt turned a quarter turn around center: counter-clockwise for
\* sign 1 (90 degrees), clockwise for sign -1 (-90 degrees)
QuarterTurn(pt, center, sign) ==
    <<RSub(center[1], RMul(RInt(sign), RSub(pt[2], center[2]))),
      RAdd(center[2], RMul(RInt(sign), RSub(pt[1], center[1])))>>

\* C13 as stated: for a leg of two correspondences the third one is the
\* second point rotated around the first, by -90 degrees in curve space
\* and by +90 degrees in raster space.
C13_ThirdBySecondAroundFirst ==
    fit # NoFit =>
        /\ Len(fit.sp) = 3 /\ Len(fit.dp) = 3
        /\ fit.sp[3] = QuarterTurn(fit.sp[2], fit.sp[1], -1)
        /\ fit.dp[3] = QuarterTurn(fit.dp[2], fit.dp[1], 1)

\* C13: for a leg of two correspondences the third one is the first point
\* rotated around the second, by -90 degrees in curve space and by +90
\* degrees in raster space; the first two are the leg's own.
C13_ThirdByFirstAroundSecond ==
    fit # NoFit =>
        /\ Len(fit.sp) = 3 /\ Len(fit.dp) = 3
        /\ fit.sp[3] = QuarterTurn(fit.sp[1], fit.sp[2], -1)
        /\ fit.dp[3] = QuarterTurn(fit.dp[1], fit.dp[2], 1)
        /\ fit.leg \in DOMAIN rte_legs
        /\ <<fit.sp[1], fit.sp[2]>> = LegSp(rte_legs[fit.leg])

\* C13, its case: a leg whose two correspondences differ in both spaces
\* has been fitted
C13_Witness ==
    /\ fit # NoFit /\ ~fit.failed
    /\ fit.sp[1] # fit.sp[2] /\ fit.dp[1] # fit.dp[2]
    /\ fit.sp[3] # fit.sp[1] /\ fit.dp[3] # fit.dp[2]

\* the map-raster to cropped-raster pair derived from the extent the
\* route's area of interest gives at the moment
CropPairOfCurrentExtent ==
    FitMap2CropMap(GetMapXYExtent(AreaExtent(rte.area_of_interest),
                                  rte.matrix_fullmap2map))

\* C14 as stated: after every area-of-interest edit and every addition of
\* a leg the stored map-raster/cropped-raster pair is the one derived from
\* the route's current extent and DPI ratio.
C14_CropTransformCurrent ==
    /\ rte.matrix_map2cropmap = CropPairOfCurrentExtent
    /\ rte.matrix_cropmap2map = Inv3(CropPairOfCurrentExtent)

(***************************************************************************)
(* PROPERTIES OF THE TILE GEOMETRY                                         *)
(***************************************************************************)

\* the pixels tile column tx of the grid owns: tile_size.x, fewer in the last
\* column, none outside the grid
OwnedWidth(t, tx) ==
    IF tx < 0 \/ tx >= t.tile_count.x THEN 0
    ELSE IF (tx + 1) * t.tile_size.x > t.image_size.x
         THEN t.image_size.x - tx * t.tile_size.x
         ELSE t.tile_size.x

OwnedHeight(t, ty) ==
    IF ty < 0 \/ ty >= t.tile_count.y THEN 0
    ELSE IF (ty + 1) * t.tile_size.y > t.image_size.y
         THEN t.image_size.y - ty * t.tile_size.y
         ELSE t.tile_size.y

RECURSIVE MosaicWidth(_, _, _)
MosaicWidth(t, x0, x1) ==
    IF x0 >= x1 THEN 0 ELSE OwnedWidth(t, x0) + MosaicWidth(t, x0 + 1, x1)

RECURSIVE MosaicHeight(_, _, _)
MosaicHeight(t, y0, y1) ==
    IF y0 >= y1 THEN 0 ELSE OwnedHeight(t, y0) + MosaicHeight(t, y0 + 1, y1)

RLeq(a, b) == ~RLess(b, a)

\* the area lies in the crop rectangle of the renderer
AreaInCrop(t, a) ==
    /\ RLeq(t.crop_rect.x0, a.p0.x) /\ RLeq(a.p0.x, a.p1.x)
    /\ RLeq(a.p1.x, t.crop_rect.x1)
    /\ RLeq(t.crop_rect.y0, a.p0.y) /\ RLeq(a.p0.y, a.p1.y)
    /\ RLeq(a.p1.y, t.crop_rect.y1)

\* the area is not empty
AreaNotEmpty(a) == RLess(a.p0.x, a.p1.x) /\ RLess(a.p0.y, a.p1.y)

\* C15: tile coverage. For a non-empty area in the crop rectangle the mosaic of
\* the tiles of the returned index range, trimmed by the returned cropping
\* on its four sides, has exactly the returned image size: per axis the sum
\* of the tile sizes minus the two croppings equals the image size.
C15_TileCoverage ==
    (/\ area_call # NoAreaCall
     /\ AreaInCrop(tr, area_call.crop_rect)
     /\ AreaNotEmpty(area_call.crop_rect)) =>
        /\ MosaicWidth(tr, area_call.tile_range.x0, area_call.tile_range.x1)
             - area_call.cropping.p0.x - area_call.cropping.p1.x
           = area_call.image_size.x
        /\ MosaicHeight(tr, area_call.tile_range.y0, area_call.tile_range.y1)
             - area_call.cropping.p0.y - area_call.cropping.p1.y
           = area_call.image_size.y

\* the rectangle of the page that tile (x, y) owns: tile_size pixels from
\* the origin of the crop rectangle, cut at its right and bottom edge
OwnedRect(t, x, y) ==
    Rect(RAdd(t.crop_rect.x0, RDiv(RInt(x * t.tile_size.x), t.scale)),
         RAdd(t.crop_rect.y0, RDiv(RInt(y * t.tile_size.y), t.scale)),
         RMin(t.crop_rect.x1,
              RAdd(t.crop_rect.x0, RDiv(RInt((x + 1) * t.tile_size.x), t.scale))),
         RMin(t.crop_rect.y1,
              RAdd(t.crop_rect.y0, RDiv(RInt((y + 1) * t.tile_size.y), t.scale))))

\* C16: the rectangle rendered for a tile is exactly the rectangle the tile
\* owns, so that the rectangles of neighbouring tiles meet without a strip
\* between them.
C16_RenderedIsOwned ==
    \A xy \in DOMAIN clips :
        /\ clips[xy] = OwnedRect(tr, xy[1], xy[2])
        /\ <<xy[1] + 1, xy[2]>> \in DOMAIN clips =>
               clips[<<xy[1] + 1, xy[2]>>].x0 = clips[xy].x1
        /\ <<xy[1], xy[2] + 1>> \in DOMAIN clips =>
               clips[<<xy[1], xy[2] + 1>>].y0 = clips[xy].y1

\* the tiles of an index range
RangeTiles(r) ==
    {PointXY(tx, ty) : tx \in r.x0 .. r.x1 - 1, ty \in r.y0 .. r.y1 - 1}

\* an index range by the floor and the ceiling of the edges of the area,
\* measured from the origin of the grid in tiles
CoveringRange(t, a) ==
    [x0 |-> Floor(RDiv(RMul(RSub(a.p0.x, t.crop_rect.x0), t.scale), RInt(t.tile_size.x))),
     x1 |-> Ceil(RDiv(RMul(RSub(a.p1.x, t.crop_rect.x0), t.scale), RInt(t.tile_size.x))),
     y0 |-> Floor(RDiv(RMul(RSub(a.p0.y, t.crop_rect.y0), t.scale), RInt(t.tile_size.y))),
     y1 |-> Ceil(RDiv(RMul(RSub(a.p1.y, t.crop_rect.y0), t.scale), RInt(t.tile_size.y)))]

\* C17: for an area in the crop rectangle the returned list holds each tile
\* of the covering index range exactly once and no other tile, also when
\* the range is empty.
C17_ExactlyTheRange ==
    (area_call # NoAreaCall /\ AreaInCrop(tr, area_call.crop_rect)) =>
        /\ area_call.tile_range = CoveringRange(tr, area_call.crop_rect)
        /\ {area_call.tile_list[i] : i \in DOMAIN area_call.tile_list}
             = RangeTiles(area_call.tile_range)
        /\ Len(area_call.tile_list) = Cardinality(RangeTiles(area_call.tile_range))

\* the square of the distance of the centre of a tile from the centroid of
\* an index range
FromCentroid2(tile, r) ==
    RAdd(RMul(RSub(Rat(2 * tile.x + 1, 2), Rat(r.x0 + r.x1, 2)),
              RSub(Rat(2 * tile.x + 1, 2), Rat(r.x0 + r.x1, 2))),
         RMul(RSub(Rat(2 * tile.y + 1, 2), Rat(r.y0 + r.y1, 2)),
              RSub(Rat(2 * tile.y + 1, 2), Rat(r.y0 + r.y1, 2))))

\* C18: the returned list of a non-empty index range is in the order of
\* non-decreasing distance from the centroid of the range; in particular
\* its first tile is one of the nearest.
C18_OrderedFromCentroid ==
    (/\ area_call # NoAreaCall
     /\ area_call.tile_range.x0 < area_call.tile_range.x1
     /\ area_call.tile_range.y0 < area_call.tile_range.y1) =>
        \A i \in 1 .. Len(area_call.tile_list) - 1 :
            RLeq(FromCentroid2(area_call.tile_list[i], area_call.tile_range),
                 FromCentroid2(area_call.tile_list[i + 1], area_call.tile_range))

\* the size of the crop rectangle in pixels, as a rational
ExactImageWidth(t) == RMul(RSub(t.crop_rect.x1, t.crop_rect.x0), Rat(t.dpi, 72))

ExactImageHeight(t) == RMul(RSub(t.crop_rect.y1, t.crop_rect.y0), Rat(t.dpi, 72))

\* tile_count tiles cover the image and one tile fewer does not
JustCovers(count, tile, image) ==
    /\ count * tile >= image
    /\ (count - 1) * tile < image

TileCountFits(t) ==
    /\ t.tile_count.x = Ceil(Rat(t.image_size.x, t.tile_size.x))
    /\ t.tile_count.y = Ceil(Rat(t.image_size.y, t.tile_size.y))
    /\ JustCovers(t.tile_count.x, t.tile_size.x, t.image_size.x)
    /\ JustCovers(t.tile_count.y, t.tile_size.y, t.image_size.y)

\* the scenario: a crop of 3000 x 2000 at 600 DPI in tiles of 512 x 512
ScenarioHolds(t) ==
    (/\ RSub(t.crop_rect.x1, t.crop_rect.x0) = RInt(3000)
     /\ RSub(t.crop_rect.y1, t.crop_rect.y0) = RInt(2000)
     /\ t.dpi = 600
     /\ t.tile_size = PointXY(512, 512)) => t.tile_count = PointXY(49, 33)

CheckCachedStep ==
    /\ pc[Pregen] \in {"cc_local", "cc_exists"}
    /\ <<pc[Pregen], pg_idx>>' # <<pc[Pregen], pg_idx>>
    /\ abandons' = abandons

\* check_cached raised: the listing of the bucket by file_exists failed
CheckCachedRaised ==
    /\ pc[Pregen] = "cc_exists"
    /\ ~known_inited'[InstOf(Pregen)]

\* check_cached returned True: pregenerate_tiles goes on to the next tile
\* without a render
ReturnedTrue == pg_idx' = pg_idx + 1 /\ ~CheckCachedRaised

\* check_cached returned False: pregenerate_tiles renders the tile
ReturnedFalse == pc'[Pregen] = "rt_render"

\* C20: check_cached is a pure existence probe. A call that returns, returns
\* True exactly when the tile is in the local cache or in the remote store,
\* it asks the remote store only after the local cache missed, and it
\* renders nothing and leaves the contents of both caches as they were.
C20_PureProbe ==
    [][(CheckCachedStep /\ ~CheckCachedRaised) =>
        /\ local' = local /\ remote' = remote /\ renders' = renders
        /\ pc[Pregen] = "cc_local" =>
              /\ local[cur[Pregen]] # "none" => ReturnedTrue
              /\ (local[cur[Pregen]] = "none" /\ has_remote) =>
                     pc'[Pregen] = "cc_exists"
              /\ (local[cur[Pregen]] = "none" /\ ~has_remote) => ReturnedFalse
        /\ pc[Pregen] = "cc_exists" =>
              /\ has_remote
              /\ remote[cur[Pregen]] # "none" => ReturnedTrue
              /\ remote[cur[Pregen]] = "none" => ReturnedFalse]_vars

(***************************************************************************)
(* PROPERTIES OF THE CACHE ENTRIES                                         *)
(***************************************************************************)

\* what check_cached answers for a tile in the pregeneration process when
\* the remote store can be listed
WouldReturnTrue(t) ==
    \/ local[t] # "none"
    \/ has_remote /\ t \in KnownAfterInit(InstOf(Pregen))

\* C21: cache entries are never invalidated. A tile file that is complete
\* in the local cache is not removed and not written again by any step, and
\* a tile for which check_cached answers True keeps that answer.
C21_NeverInvalidated ==
    [][\A t \in Tiles :
          /\ local[t] = "full" => local'[t] = "full"
          /\ WouldReturnTrue(t) => WouldReturnTrue(t)']_vars

(***************************************************************************)
(* PROPERTIES OF THE TILE REQUESTS                                         *)
(***************************************************************************)

Works(call) == call.op \in {"get_tile", "render_tile", "check_cached"}

TupleOf(call) == <<call.tileset_name, call.dpi, call.x, call.y>>

\* C22: the cache key is a pure function of (map name, dpi, x, y). Any two
\* tile operations, whichever they are and whenever they run, work on the
\* same local file and the same remote key when their tuples are equal, and
\* on different local files and different remote keys when they are not.
C22_KeyOfTuple ==
    (Works(addr) /\ Works(addr_before)) =>
        /\ (TupleOf(addr) = TupleOf(addr_before)) <=>
              (addr.tilecache_fname = addr_before.tilecache_fname)
        /\ (TupleOf(addr) = TupleOf(addr_before)) <=>
              (addr.tilecache_remote = addr_before.tilecache_remote)

\* a check_cached and a later get_tile of the same tuple, on the same entry
C22_Witness ==
    /\ addr.op = "get_tile"
    /\ addr_before.op = "check_cached"
    /\ TupleOf(addr) = TupleOf(addr_before)
    /\ addr.tilecache_fname = addr_before.tilecache_fname

\* the request names a map and a resolution that a renderer is made for
Configured(request) ==
    request[1] \in MapNames /\ request[2] \in ConfiguredDpis

\* C23: a tile request for an unknown map or for a resolution without a
\* renderer is answered with a bad request and works on no cache entry:
\* no operation of a renderer runs for it, so nothing is rendered and no
\* cache is read or written. A request a renderer matches is served by
\* that renderer.
C23_UnknownIsBadRequest ==
    /\ addr.op = "bad_request" <=> (addr # NoAddr /\ ~Configured(addr.request))
    /\ addr.op = "bad_request" => DOMAIN addr = {"op", "request", "x", "y"}
    /\ Works(addr) => addr.request = <<addr.tileset_name, addr.dpi>>

\* a request for a resolution that is not configured, after one that was
\* served
C23_Witness ==
    /\ addr.op = "bad_request"
    /\ addr.request[1] \in MapNames
    /\ addr_before.op = "get_tile"

(***************************************************************************)
(* PROPERTIES OF THE STEPS OF A ROUTE                                      *)
(***************************************************************************)

\* C24: when set_state(required) returns, the route is in the required
\* state: for every state the route was in and every required state,
\* stepping backward or forward, also forward to WAYPOINTS with waypoints
\* and legs already there, from the step message and from loading a saved
\* route.
C24_StateIsRequired ==
    set_state_call.kind = "returned" =>
        sroute.state = set_state_call.required

\* C30: the names of the tracks of a route never clash. From a route
\* without tracks, after any sequence of add_track and update_tracks the
\* names are pairwise distinct; every add_track ended, after no more turns
\* of its loop than there were tracks, and gave the track the name asked
\* for or, when that one was taken, the name with a numeric suffix.
C30_TrackNamesDistinct ==
    /\ \A j, k \in DOMAIN sroute.tracks :
          j # k => sroute.tracks[j].fname # sroute.tracks[k].fname
    /\ \A k \in DOMAIN sroute.tracks :
          LET t == sroute.tracks[k]
          IN  /\ t.turns < MaxTracks
              /\ t.turns = 0 => t.fname = t.asked
              /\ t.turns > 0 =>
                    t.fname = Splitext[t.asked][1] \o "_"
                                 \o Format03d(t.turns - 1) \o Splitext[t.asked][2]

\* the third upload of the same file: renamed twice
C30_Witness ==
    /\ Len(sroute.tracks) = 3
    /\ sroute.tracks[3].asked = "t.gpx"
    /\ sroute.tracks[3].fname = "t_001.gpx"
    /\ sroute.tracks[3].turns = 2

(***************************************************************************)
(* PROPERTIES OF THE SESSIONS                                              *)
(***************************************************************************)

\* the time has passed the expiry of the session
Expired(session_id) ==
    /\ vfrroutes[session_id] # NoItem
    /\ now > vfrroutes[session_id].expiry

\* the step is an event that looks the session up
LooksUp(session_id) ==
    /\ event' # event
    /\ event'.name \in OpeningEvents \cup {"connect", "update-wps", "close-route"}
    /\ event'.session_id = session_id

\* C25: an expired session is never handed out. Once the time has passed
\* the expiry of a session, a lookup of its id, by SessionStore.get at
\* connect or by get_session (touch, then get) in an event, yields no
\* route.
C25_ExpiredNotHandedOut ==
    [][\A session_id \in SessionIds :
          (Expired(session_id) /\ LooksUp(session_id)) => event'.rte = None]_vars

\* C26: the store never holds more than MAX_SESSIONS sessions, however the
\* connect, create, sample, load, load-published and close-route events of
\* the clients interleave.
C26_AtMostMaxSessions == StoreCount(vfrroutes) <= MAX_SESSIONS

\* C27: for a socket without a session id require_session emits only the
\* no-session result and does not run the handler, and nothing is stored
\* under the absent session id.
C27_NoSessionNoHandler ==
    /\ (event.name \notin {"none", "connect", "disconnect"}
        /\ event.session_id = None) =>
            (event.emitted = <<"no-session">> /\ ~event.invoked)
    /\ vfrroutes[None] = NoItem

(***************************************************************************)
(* PROPERTIES OF THE TILE LIST                                             *)
(***************************************************************************)

\* C28: for every area inside the crop rectangle, the crop rectangle itself
\* included, every tile get_tile_list_for_area returns is a tile of the
\* grid: 0 <= x < tile_count.x and 0 <= y < tile_count.y.
C28_TilesInGrid ==
    (/\ area_call # NoAreaCall
     /\ AreaInCrop(tr, area_call.crop_rect)) =>
        \A i \in DOMAIN area_call.tile_list :
            /\ 0 <= area_call.tile_list[i].x
            /\ area_call.tile_list[i].x < tr.tile_count.x
            /\ 0 <= area_call.tile_list[i].y
            /\ area_call.tile_list[i].y < tr.tile_count.y

(***************************************************************************)
(* PROPERTIES OF THE PREGENERATION                                         *)
(***************************************************************************)

\* the tile is in one of the two caches
Present(t) == local[t] # "none" \/ remote[t] # "none"

\* the pregeneration is at a tile of its walk
Walking == pc[Pregen] \notin {"idle", "pg_done"}

\* the step is an exception caught in the walk: the listing of the remote
\* store that raises in check_cached, or the upload that raises in
\* render_tile
PgFailure ==
    \/ /\ pc[Pregen] = "cc_exists"
       /\ InitRaises(InstOf(Pregen), FALSE)
       /\ CcFileExists(Pregen, FALSE)
    \/ /\ pc[Pregen] = "rt_upload"
       /\ \E init_ok, ok \in BOOLEAN :
             /\ InitRaises(InstOf(Pregen), init_ok) \/ ~ok
             /\ RtUpload(Pregen, init_ok, ok)

\* the pregeneration is through with the tile it was at
MovesOn == Walking /\ pg_idx' = pg_idx + 1

====
